---- MODULE Spec2Model ----
(***************************************************************************)
(* Verification model of the ImageFusion pipeline (CnybTseng/ImageFusion): *)
(* the byte ring of fifo.c, the worker stages of fusion.c and              *)
(* bkgreconstruct.c, and the start / stop / delete life cycle driven by    *)
(* main.cpp.                                                               *)
(***************************************************************************)
EXTENDS Integers, Naturals, Sequences, FiniteSets, TLC

(***************************************************************************)
(* Bounds of the model.                                                    *)
(***************************************************************************)
\* Width in bits of the model's "unsigned int" (32 in the build); in/out
\* counters and every unsigned expression are reduced modulo 2^UIntBits.
UIntBits == 4
\* Number of payload bytes of one image (width * height in the build).
ImageBytes == 1
\* Number of records the producer of the single-ring specifications offers.
MaxPuts == 10
\* Byte size asked of fifo_alloc for the ring driven by calls of every size.
AllocBytes == 5
\* Records a ring of the pipeline holds (self->caches: 4 in fusion_init, 8 in
\* bkgreconst_init).
Depth == 1
\* Frames the infrared capture thread delivers.
MaxFrames == 2
\* Frames the visual capture thread delivers.
MaxVisFrames == 1
\* Frames each capture thread delivers in the runs that start and stop the
\* pipeline.
MaxLifeFrames == 1
\* Lines of control_points.txt.
MaxLines == 6
\* Pixels of a raw infrared frame handed to RDC_SendRawData.
RawPixels == 2
\* Bins of the histogram CLAHE works on (nBins, 16384 in RDC_Init).
HistBins == 4
\* Most pixels of one gray level in a frame given to CLAHE.
MaxCount == 6
\* Most pixels of a frame whose value is not below nBins.
MaxLost == 1
\* Bits of an unsigned long in ClipHist.
ULongBits == 12
\* Frames the infrared capture thread delivers while main is still in its
\* SDL set-up.
MaxSkewFrames == 3

UIntMod == 2 ^ UIntBits

U32(x) == x % UIntMod

Min(a, b) == IF a < b THEN a ELSE b

RECURSIVE BitAnd(_, _)
BitAnd(a, b) ==
    IF a = 0 \/ b = 0 THEN 0
    ELSE (a % 2) * (b % 2) + 2 * BitAnd(a \div 2, b \div 2)

RECURSIVE BitLen(_)
BitLen(a) == IF a = 0 THEN 0 ELSE 1 + BitLen(a \div 2)

(***************************************************************************)
(* fifo.c                                                                  *)
(***************************************************************************)
is_power_of_2(x) == x # 0 /\ BitAnd(x, x - 1) = 0

\* position counts the bits of a; the result is 1 << position.
roundup_power_of_2(a) == IF a = 0 THEN 0 ELSE U32(2 ^ BitLen(a))

\* memcpy(dst + doff, src + soff, n)
Memcpy(dst, doff, src, soff, n) ==
    [i \in DOMAIN dst |->
        IF doff <= i /\ i < doff + n THEN src[soff + (i - doff)] ELSE dst[i]]

\* struct tagFifo as fifo_init leaves it; fill is the content of the
\* malloc'ed buffer.
fifo_init(size, fill) ==
    [buffer |-> [i \in 0 .. size - 1 |-> fill], size |-> size, in |-> 0, out |-> 0]

fifo_alloc(size, fill) ==
    fifo_init(IF is_power_of_2(size) THEN size ELSE roundup_power_of_2(size), fill)

__fifo_len(self) == U32(self.in - self.out)

fifo_len(self) == __fifo_len(self)

\* The free space is computed one byte short.
__fifo_put_offbyone(self, buffer, size) ==
    LET sz  == Min(size, U32(self.size - 1 - self.in + self.out))
        off == BitAnd(self.in, self.size - 1)
        len == Min(sz, self.size - off)
        b1  == Memcpy(self.buffer, off, buffer, 0, len)
        b2  == Memcpy(b1, 0, buffer, len, sz - len)
    IN  [self |-> [self EXCEPT !.buffer = b2, !.in = U32(self.in + sz)], ret |-> sz]

\* The request is not clamped to the free space.
__fifo_put_noclamp(self, buffer, size) ==
    LET sz  == size
        off == BitAnd(self.in, self.size - 1)
        len == Min(sz, self.size - off)
        b1  == Memcpy(self.buffer, off, buffer, 0, len)
        b2  == Memcpy(b1, 0, buffer, len, sz - len)
    IN  [self |-> [self EXCEPT !.buffer = b2, !.in = U32(self.in + sz)], ret |-> sz]

__fifo_put(self, buffer, size) ==
    LET sz  == Min(size, U32(self.size - self.in + self.out))
        off == BitAnd(self.in, self.size - 1)
        len == Min(sz, self.size - off)
        b1  == Memcpy(self.buffer, off, buffer, 0, len)
        b2  == Memcpy(b1, 0, buffer, len, sz - len)
    IN  [self |-> [self EXCEPT !.buffer = b2, !.in = U32(self.in + sz)], ret |-> sz]

\* The read offset is taken from the write counter.
__fifo_get_inoff(self, buffer, size) ==
    LET sz  == Min(size, U32(self.in - self.out))
        off == BitAnd(self.in, self.size - 1)
        len == Min(sz, self.size - off)
        b1  == Memcpy(buffer, 0, self.buffer, off, len)
        b2  == Memcpy(b1, len, self.buffer, 0, sz - len)
    IN  [self |-> [self EXCEPT !.out = U32(self.out + sz)], buffer |-> b2, ret |-> sz]

\* The second copy (the part that wrapped to the start of the ring) is lost.
__fifo_get_nowrap(self, buffer, size) ==
    LET sz  == Min(size, U32(self.in - self.out))
        off == BitAnd(self.out, self.size - 1)
        len == Min(sz, self.size - off)
        b1  == Memcpy(buffer, 0, self.buffer, off, len)
    IN  [self |-> [self EXCEPT !.out = U32(self.out + sz)], buffer |-> b1, ret |-> sz]

__fifo_get(self, buffer, size) ==
    LET sz  == Min(size, U32(self.in - self.out))
        off == BitAnd(self.out, self.size - 1)
        len == Min(sz, self.size - off)
        b1  == Memcpy(buffer, 0, self.buffer, off, len)
        b2  == Memcpy(b1, len, self.buffer, 0, sz - len)
    IN  [self |-> [self EXCEPT !.out = U32(self.out + sz)], buffer |-> b2, ret |-> sz]

\* fifo_put and fifo_get run their body between pthread_mutex_lock and
\* pthread_mutex_unlock of the ring's mutex: one atomic step each.
fifo_put(self, buffer, size) == __fifo_put(self, buffer, size)

fifo_get(self, buffer, size) ==
    LET r == __fifo_get(self, buffer, size)
    IN  IF r.self.in = r.self.out
        THEN [r EXCEPT !.self.in = 0, !.self.out = 0]
        ELSE r

(***************************************************************************)
(* Record sizes and ring capacities, fusion.c fusion_init.                 *)
(***************************************************************************)
caches == 4

\* nmsc_image_size / image_size: one plane of ImageBytes bytes, rounded up.
RecSize == roundup_power_of_2(ImageBytes)

RingBytes == caches * RecSize

(***************************************************************************)
(* State.                                                                  *)
(***************************************************************************)
VARIABLES
    ring,       \* the Fifo under test: [buffer, size, in, out]
    obuf,       \* the consumer's destination buffer
    op,         \* the last ring call: [name, size, ret]
    nput,       \* records offered by the producer so far
    accepted,   \* records whose fifo_put returned the record size, in order
    returned,   \* records whose fifo_get returned the record size, in order
    nbytes,     \* bytes written minus bytes read (ghost)
    rings,      \* the rings of Fusion and BkgReconst, by field name
    scr,        \* the scratch images of Fusion and BkgReconst, by field name
    out,        \* main's destination images, by name
    pc,         \* position of each worker and capture thread
    mainpc,     \* position of main
    stop_fusn,  \* Fusion.stop_fusn
    stop_reconst, \* BkgReconst.stop_reconst
    sdl_quited, \* main.cpp sdl_quited
    irSeq,      \* infrared frames received so far
    visSeq,     \* visual frames received so far
    freed,      \* fusion_delete has released the instance
    uaf,        \* threads that touched the instance after its release
    dropped,    \* ring of the last truncated put of a worker (ghost)
    ipc,        \* position of main in fusion_new / fusion_init / clean:
    fld,        \* what each pointer field of Fusion holds
    nrel,       \* how often each resource has been released
    got,        \* resources that were allocated
    wild,       \* a pointer that was never set has been released
    fn          \* the call of a single function under study: inputs, results

fifoVars == <<ring, obuf, op, nput, accepted, returned, nbytes>>

pipeVars == <<rings, scr, out, pc, mainpc, stop_fusn, stop_reconst, sdl_quited,
              irSeq, visSeq, freed, uaf, dropped>>

allocVars == <<ipc, fld, nrel, got, wild, fn>>

vars == <<ring, obuf, op, nput, accepted, returned, nbytes,
          rings, scr, out, pc, mainpc, stop_fusn, stop_reconst, sdl_quited,
          irSeq, visSeq, freed, uaf, dropped,
          ipc, fld, nrel, got, wild, fn>>

\* The k-th record of the producer: RecSize distinct bytes.
Record(k) == [i \in 0 .. RecSize - 1 |-> k * RecSize + i]

\* A payload of n bytes for the arbitrary-size calls.
Payload(n) == [i \in 0 .. n - 1 |-> 1]

\* Capacity of the ring fifo_alloc(AllocBytes) returns.
AnyCap == fifo_alloc(AllocBytes, 0).size

\* A destination buffer as the caller of an arbitrary-size get passes it.
FreshBuf == [i \in 0 .. AnyCap |-> 0]

\* The variables of the construction in the specifications of a built
\* instance.
AllocQuiet ==
    /\ ipc = [at |-> "built", k |-> 0]
    /\ fld = <<>>
    /\ nrel = <<>>
    /\ got = {}
    /\ wild = FALSE

\* No single function is under study.
FnIdle == fn = [op |-> "none"]

AllocIdle == AllocQuiet /\ FnIdle

\* The pipeline variables in the single-ring specifications.
PipeQuiet ==
    /\ rings = <<>>
    /\ scr = <<>>
    /\ out = <<>>
    /\ pc = <<>>
    /\ mainpc = "none"
    /\ stop_fusn = 0
    /\ stop_reconst = 0
    /\ sdl_quited = 0
    /\ irSeq = 0
    /\ visSeq = 0
    /\ freed = FALSE
    /\ uaf = {}
    /\ dropped = "none"

PipeIdle == PipeQuiet /\ AllocIdle

FifoInit ==
    /\ \E fill \in {0, 255} : ring = fifo_alloc(RingBytes, fill)
    /\ obuf = [i \in 0 .. RecSize - 1 |-> 0]
    /\ op = [name |-> "none", size |-> 0, ret |-> 0]
    /\ nput = 0
    /\ accepted = <<>>
    /\ returned = <<>>
    /\ nbytes = 0
    /\ PipeIdle

\* The producer thread offers its next whole record.
PutRecord ==
    /\ nput < MaxPuts
    /\ LET r == fifo_put(ring, Record(nput + 1), RecSize)
       IN  /\ ring' = r.self
           /\ op' = [name |-> "put", size |-> RecSize, ret |-> r.ret]
           /\ accepted' = IF r.ret = RecSize
                          THEN Append(accepted, Record(nput + 1))
                          ELSE accepted
           /\ nbytes' = nbytes + r.ret
    /\ nput' = nput + 1
    /\ UNCHANGED <<obuf, returned, pipeVars, allocVars>>

\* The consumer thread asks for one whole record.
GetRecord ==
    /\ LET r == fifo_get(ring, obuf, RecSize)
       IN  /\ ring' = r.self
           /\ obuf' = r.buffer
           /\ op' = [name |-> "get", size |-> RecSize, ret |-> r.ret]
           /\ returned' = IF r.ret = RecSize
                          THEN Append(returned, [i \in 0 .. RecSize - 1 |-> r.buffer[i]])
                          ELSE returned
           /\ nbytes' = nbytes - r.ret
    /\ UNCHANGED <<nput, accepted, pipeVars, allocVars>>

\* Either thread reads the occupancy.
LenCall ==
    /\ op' = [name |-> "len", size |-> 0, ret |-> fifo_len(ring)]
    /\ UNCHANGED <<ring, obuf, nput, accepted, returned, nbytes, pipeVars, allocVars>>

FifoNext ==
    \/ PutRecord
    \/ GetRecord
    \/ LenCall

SpecFifo == FifoInit /\ [][FifoNext]_vars

(***************************************************************************)
(* The same ring under calls of every size (the ring's own contract).      *)
(***************************************************************************)
FifoAnyInit ==
    /\ \E fill \in {0, 255} : ring = fifo_alloc(AllocBytes, fill)
    /\ obuf = FreshBuf
    /\ op = [name |-> "none", size |-> 0, ret |-> 0]
    /\ nput = 0
    /\ accepted = <<>>
    /\ returned = <<>>
    /\ nbytes = 0
    /\ PipeIdle

PutAny ==
    \E size \in 0 .. AnyCap + 1 :
        LET r == fifo_put(ring, Payload(size), size)
        IN  /\ ring' = r.self
            /\ op' = [name |-> "put", size |-> size, ret |-> r.ret]
            /\ nbytes' = nbytes + r.ret
            /\ UNCHANGED <<obuf, nput, accepted, returned, pipeVars, allocVars>>

GetAny ==
    \E size \in 0 .. AnyCap + 1 :
        LET r == fifo_get(ring, FreshBuf, size)
        IN  /\ ring' = r.self
            /\ obuf' = r.buffer
            /\ op' = [name |-> "get", size |-> size, ret |-> r.ret]
            /\ nbytes' = nbytes - r.ret
            /\ UNCHANGED <<nput, accepted, returned, pipeVars, allocVars>>

LenAny ==
    /\ op' = [name |-> "len", size |-> 0, ret |-> fifo_len(ring)]
    /\ UNCHANGED <<ring, obuf, nput, accepted, returned, nbytes, pipeVars, allocVars>>

FifoAnyNext ==
    \/ PutAny
    \/ GetAny
    \/ LenAny

SpecFifoAny == FifoAnyInit /\ [][FifoAnyNext]_vars

(***************************************************************************)
(* Properties of the ring.                                                 *)
(***************************************************************************)
\* The bytes a ring holds, oldest first.
Stored(r) ==
    [j \in 1 .. __fifo_len(r) |-> r.buffer[BitAnd(U32(r.out + j - 1), r.size - 1)]]

\* The first n bytes of a buffer, as a sequence.
Prefix(buf, n) == [j \in 1 .. n |-> buf[j - 1]]

IsPrefix(s, t) == Len(s) <= Len(t) /\ \A i \in 1 .. Len(s) : s[i] = t[i]

\* C1: in every reachable state of a ring driven by put, get and len calls of
\* any size, the occupancy in - out is the number of bytes written and not yet
\* read, and it lies between 0 and the ring's capacity.
C1_OccupancyBounded ==
    /\ __fifo_len(ring) = nbytes
    /\ 0 <= nbytes
    /\ nbytes <= ring.size

\* A full ring whose write counter has wrapped past 2^UIntBits while the read
\* counter has not.
C1_Witness ==
    /\ nbytes = ring.size
    /\ ring.in < ring.out
    /\ op.name = "put"

\* C2: the records returned by whole-record gets are a prefix of the records
\* accepted by whole-record puts, in order and byte for byte.
C2_FifoOrder == IsPrefix(returned, accepted)

\* A record returned after the write position wrapped past the end of the
\* buffer, in a ring that was emptied (and its counters reset) before.
C2_Witness ==
    /\ op.name = "get"
    /\ op.ret = RecSize
    /\ ring.out > ring.size
    /\ Len(accepted) * RecSize > ring.size + ring.in
    /\ Len(returned) >= 1

\* C3: a put of a record stores the whole record behind the bytes already
\* held and returns the record size, or changes nothing and returns 0.
C3_PutAllOrNothing ==
    [][op'.name = "put" =>
        \/ /\ op'.ret = RecSize
           /\ Stored(ring') = Stored(ring) \o Prefix(Record(nput'), RecSize)
        \/ /\ op'.ret = 0
           /\ ring' = ring]_vars

\* A record refused by a full ring.
C3_Witness ==
    /\ op.name = "put"
    /\ op.ret = 0
    /\ __fifo_len(ring) = ring.size
    /\ Len(accepted) > caches

\* C4, as stated: put writes min(size, capacity - (in - out)) bytes and
\* advances in by that amount; get reads min(size, in - out) bytes and
\* advances out by that amount.
C4_Original ==
    [][/\ op'.name = "put" =>
            /\ op'.ret = Min(op'.size, ring.size - __fifo_len(ring))
            /\ Stored(ring') = Stored(ring) \o Prefix(Payload(op'.size), op'.ret)
            /\ ring'.in = U32(ring.in + op'.ret)
            /\ ring'.out = ring.out
       /\ op'.name = "get" =>
            /\ op'.ret = Min(op'.size, __fifo_len(ring))
            /\ Stored(ring) = Prefix(obuf', op'.ret) \o Stored(ring')
            /\ \A i \in DOMAIN obuf' : i >= op'.ret => obuf'[i] = FreshBuf[i]
            /\ ring'.out = U32(ring.out + op'.ret)
            /\ ring'.in = ring.in]_vars

\* C4, amended: as stated, except that a get which leaves the ring empty
\* resets both in and out to 0 instead of leaving out advanced.
C4_Amended ==
    [][/\ op'.name = "put" =>
            /\ op'.ret = Min(op'.size, ring.size - __fifo_len(ring))
            /\ Stored(ring') = Stored(ring) \o Prefix(Payload(op'.size), op'.ret)
            /\ ring'.in = U32(ring.in + op'.ret)
            /\ ring'.out = ring.out
       /\ op'.name = "get" =>
            /\ op'.ret = Min(op'.size, __fifo_len(ring))
            /\ Stored(ring) = Prefix(obuf', op'.ret) \o Stored(ring')
            /\ \A i \in DOMAIN obuf' : i >= op'.ret => obuf'[i] = FreshBuf[i]
            /\ IF op'.ret = __fifo_len(ring)
               THEN ring'.in = 0 /\ ring'.out = 0
               ELSE ring'.out = U32(ring.out + op'.ret) /\ ring'.in = ring.in]_vars

\* A get that asked for more than the ring held: it returned fewer bytes
\* than requested, emptied the ring, and the counters were reset.
C4_Witness ==
    /\ op.name = "get"
    /\ 0 < op.ret
    /\ op.ret < op.size
    /\ ring.in = 0
    /\ ring.out = 0

(***************************************************************************)
(* The pipeline: fusion.c, bkgreconstruct.c and the threads of main.cpp.   *)
(* An image is a byte buffer whose byte 0 carries the identity of the      *)
(* frame(s) it was computed from; the image algorithms keep that identity. *)
(***************************************************************************)
\* fusion_init: self->caches = 4; bkgreconst_init: self->caches = 8.
fusn_caches == Depth

bkgr_caches == Depth

\* fusion_init / bkgreconst_init record sizes.
rawi_image_size == roundup_power_of_2(ImageBytes * 2)

rawv_image_size == roundup_power_of_2((ImageBytes * 3) \div 2)

yuvf_image_size == roundup_power_of_2((ImageBytes * 3) \div 2)

nmsc_image_size == roundup_power_of_2(ImageBytes)

image_size == roundup_power_of_2(ImageBytes)

blob_size == roundup_power_of_2(ImageBytes)

FusionRings == {"rawi", "rawv", "gsci", "regt", "fusn", "iout", "vout", "brft"}

BkgRings == {"infd", "infm", "blob", "minf", "gfbr"}

RingNames == FusionRings \cup BkgRings

\* The byte size each ring is allocated with.
RingAlloc(n) ==
    CASE n = "rawi" -> fusn_caches * rawi_image_size
      [] n = "rawv" -> fusn_caches * rawv_image_size
      [] n \in {"gsci", "regt", "fusn", "iout", "vout", "brft"} ->
             fusn_caches * yuvf_image_size
      [] n = "blob" -> bkgr_caches * blob_size
      [] OTHER -> bkgr_caches * image_size

\* The scratch images and their byte sizes.
ScratchSize ==
    [i_rawi_image |-> rawi_image_size, o_rawi_image |-> rawi_image_size,
     i_rawv_image |-> rawv_image_size, o_rawv_image |-> rawv_image_size,
     i_gsci_image |-> yuvf_image_size, o_gsci_image |-> yuvf_image_size,
     i_regt_image |-> yuvf_image_size, o_regt_image |-> yuvf_image_size,
     bkgr_image |-> nmsc_image_size, sbrf_image |-> nmsc_image_size,
     i_fusn_image |-> yuvf_image_size, o_fusn_image |-> yuvf_image_size,
     iout_image |-> yuvf_image_size, vout_image |-> yuvf_image_size,
     fout_image |-> yuvf_image_size,
     i_infd_image |-> image_size, o_infd_image |-> image_size,
     infm_image |-> image_size, i_minf_image |-> image_size,
     o_minf_image |-> image_size, b_bkgr_image |-> image_size,
     i_gfbr_image |-> image_size, o_gfbr_image |-> image_size,
     iblob |-> blob_size, oblob |-> blob_size]

\* main's images: base_width * base_height * 3 >> 1 bytes each.
OutSize == (ImageBytes * 3) \div 2

Img(tag, size) == [i \in 0 .. size - 1 |-> IF i = 0 THEN tag ELSE 0]

Tag(buf) == buf[0]

TagBase == MaxFrames + MaxSkewFrames

\* bezier_interpolate + gauss_filter: from a min-filtered image and a blob list.
BkgTag(minf, blob) == minf * TagBase + blob

\* fusion_thread: from an IR y8 image, a registered visual image, a background.
FuseTag(gsci, regt, bkgr) == (gsci * TagBase + regt) * TagBase * TagBase + bkgr

Workers == {"fus", "irp", "vsp", "bkg", "mnf", "qdt"}

Captures == {"cir", "cvs"}

Threads == Workers \cup Captures

\* A thread that can take a step of its code on a live instance.
Live(t) == pc[t] \notin {"off", "done", "fault"} /\ ~freed /\ mainpc # "exited"

\* while (!self->stop_fusn) / while (!self->stop_reconst)
StopSeen(flag) == flag # 0

\* A worker that leaves its loop when a put was truncated.
AfterPut_exit(ret, size, nextpc) == IF ret # size THEN "done" ELSE nextpc

\* if (write_len != size) fprintf(..): the worker logs a truncated put and goes
\* on with its next statement.
AfterPut(ret, size, nextpc) == nextpc

\* A get that reports a record whatever fifo_get returned.
GetReturn_always(ret, len) == 1

\* return (ret == len);
GetReturn(ret, len) == IF ret = len THEN 1 ELSE 0

\* if (ret == len) memmove(dst, src, n)
CopyIfWhole(ret, len, dst, src, n) ==
    IF ret = len THEN Memcpy(dst, 0, src, 0, n) ELSE dst

PipeRest == <<out, mainpc, stop_fusn, stop_reconst, sdl_quited, irSeq, visSeq,
              freed, uaf>>

\* Loop head of a worker: leave when the stop flag is set, else fifo_get of
\* one record of ring rn into scratch dst; on a whole record the stage computes
\* scratch image prod of psize bytes from it (prod = dst: it computes nothing
\* yet).
WorkerGet(w, flag, rn, dst, size, okpc, prod, psize) ==
    /\ Live(w)
    /\ pc[w] = "get"
    /\ IF StopSeen(flag)
       THEN /\ pc' = [pc EXCEPT ![w] = "done"]
            /\ UNCHANGED <<rings, scr>>
       ELSE LET r == fifo_get(rings[rn], scr[dst], size)
            IN  /\ rings' = [rings EXCEPT ![rn] = r.self]
                /\ IF r.ret = size
                   THEN /\ scr' = IF prod = dst
                                   THEN [scr EXCEPT ![dst] = r.buffer]
                                   ELSE [scr EXCEPT ![dst] = r.buffer,
                                                    ![prod] = Img(Tag(r.buffer), psize)]
                        /\ pc' = [pc EXCEPT ![w] = okpc]
                   ELSE /\ scr' = [scr EXCEPT ![dst] = r.buffer]
                        /\ UNCHANGED pc
    /\ UNCHANGED <<PipeRest, dropped, fifoVars, allocVars>>

\* fifo_put of scratch src into ring rn by worker w at position at.
WorkerPut(w, at, rn, src, size, nextpc) ==
    /\ Live(w)
    /\ pc[w] = at
    /\ LET r == fifo_put(rings[rn], scr[src], size)
       IN  /\ rings' = [rings EXCEPT ![rn] = r.self]
           /\ dropped' = IF r.ret # size THEN rn ELSE "none"
           /\ pc' = [pc EXCEPT ![w] = AfterPut(r.ret, size, nextpc)]
    /\ UNCHANGED <<scr, PipeRest, fifoVars, allocVars>>

(* preprocess_infrared_thread *)
IrpGet ==
    WorkerGet("irp", stop_fusn, "rawi", "o_rawi_image", rawi_image_size, "bput1",
              "i_gsci_image", yuvf_image_size)

\* bkgreconst_put: memmove to i_infd_image, fifo_put to infd_ring; a truncated
\* put returns before the put to infm_ring.
IrpBkgPutInfd ==
    /\ Live("irp")
    /\ pc["irp"] = "bput1"
    /\ LET img == Memcpy(scr["i_infd_image"], 0, scr["i_gsci_image"], 0, ImageBytes)
           r   == fifo_put(rings["infd"], img, image_size)
       IN  /\ scr' = [scr EXCEPT !["i_infd_image"] = img]
           /\ rings' = [rings EXCEPT !["infd"] = r.self]
           /\ dropped' = IF r.ret # image_size THEN "infd" ELSE "none"
           /\ pc' = [pc EXCEPT !["irp"] = IF r.ret # image_size THEN "pgsci" ELSE "bput2"]
    /\ UNCHANGED <<PipeRest, fifoVars, allocVars>>

\* bkgreconst_put, second half: fifo_put of i_infd_image to infm_ring.
IrpBkgPutInfm == WorkerPut("irp", "bput2", "infm", "i_infd_image", image_size, "pgsci")

IrpPutGsci == WorkerPut("irp", "pgsci", "gsci", "i_gsci_image", yuvf_image_size, "piout")

IrpPutIout == WorkerPut("irp", "piout", "iout", "i_gsci_image", yuvf_image_size, "get")

(* preprocess_visual_thread *)
VspGet ==
    WorkerGet("vsp", stop_fusn, "rawv", "o_rawv_image", rawv_image_size, "pregt",
              "i_regt_image", yuvf_image_size)

VspPutRegt == WorkerPut("vsp", "pregt", "regt", "i_regt_image", yuvf_image_size, "pvout")

VspPutVout == WorkerPut("vsp", "pvout", "vout", "i_regt_image", yuvf_image_size, "get")

(* minimum_filter_thread *)
MnfGet ==
    WorkerGet("mnf", stop_reconst, "infm", "infm_image", image_size, "put",
              "i_minf_image", image_size)

\* The minimum filter thread putting its image to blob_ring.
MnfPut_blob == WorkerPut("mnf", "put", "blob", "i_minf_image", image_size, "get")

MnfPut == WorkerPut("mnf", "put", "minf", "i_minf_image", image_size, "get")

(* quadtree_decomp_thread *)
QdtGet ==
    WorkerGet("qdt", stop_reconst, "infd", "o_infd_image", image_size, "put",
              "iblob", blob_size)

QdtPut == WorkerPut("qdt", "put", "blob", "iblob", blob_size, "get")

(* bkgreconst_thread *)
BkgGetMinf ==
    WorkerGet("bkg", stop_reconst, "minf", "o_minf_image", image_size, "gblob",
              "o_minf_image", image_size)

\* The inner loop: leave it when the stop flag is set or a whole blob record
\* was read; then interpolate and filter.
BkgGetBlob ==
    /\ Live("bkg")
    /\ pc["bkg"] = "gblob"
    /\ LET r    == fifo_get(rings["blob"], scr["oblob"], blob_size)
           stop == StopSeen(stop_reconst)
           ob   == IF stop THEN scr["oblob"] ELSE r.buffer
           bg   == Img(BkgTag(Tag(scr["o_minf_image"]), Tag(ob)), image_size)
       IN  /\ rings' = IF stop THEN rings ELSE [rings EXCEPT !["blob"] = r.self]
           /\ IF stop \/ r.ret = blob_size
              THEN /\ scr' = [scr EXCEPT !["oblob"] = ob, !["b_bkgr_image"] = bg,
                                         !["i_gfbr_image"] = bg]
                   /\ pc' = [pc EXCEPT !["bkg"] = "put"]
              ELSE /\ scr' = [scr EXCEPT !["oblob"] = ob]
                   /\ UNCHANGED pc
    /\ UNCHANGED <<PipeRest, dropped, fifoVars, allocVars>>

BkgPut == WorkerPut("bkg", "put", "gfbr", "i_gfbr_image", image_size, "get")

(* fusion_thread *)
FusGetGsci ==
    WorkerGet("fus", stop_fusn, "gsci", "o_gsci_image", yuvf_image_size, "gregt",
              "o_gsci_image", yuvf_image_size)

\* A short read of regt_ring: continue, back to the loop head.
FusGetRegt ==
    /\ Live("fus")
    /\ pc["fus"] = "gregt"
    /\ LET r == fifo_get(rings["regt"], scr["o_regt_image"], yuvf_image_size)
       IN  /\ rings' = [rings EXCEPT !["regt"] = r.self]
           /\ scr' = [scr EXCEPT !["o_regt_image"] = r.buffer]
           /\ pc' = [pc EXCEPT !["fus"] =
                        IF r.ret = yuvf_image_size THEN "gbkg" ELSE "get"]
    /\ UNCHANGED <<PipeRest, dropped, fifoVars, allocVars>>

\* bkgreconst_get, then the subtractions, the suppression and the overlay.
FusGetBkg ==
    /\ Live("fus")
    /\ pc["fus"] = "gbkg"
    /\ LET r  == fifo_get(rings["gfbr"], scr["o_gfbr_image"], image_size)
           bk == CopyIfWhole(r.ret, image_size, scr["bkgr_image"], r.buffer, ImageBytes)
           t  == FuseTag(Tag(scr["o_gsci_image"]), Tag(scr["o_regt_image"]), Tag(bk))
       IN  /\ rings' = [rings EXCEPT !["gfbr"] = r.self]
           /\ IF r.ret = image_size
              THEN /\ scr' = [scr EXCEPT !["o_gfbr_image"] = r.buffer,
                                         !["bkgr_image"] = bk,
                                         !["sbrf_image"] = Img(t, nmsc_image_size),
                                         !["i_fusn_image"] = Img(t, yuvf_image_size)]
                   /\ pc' = [pc EXCEPT !["fus"] = "pfusn"]
              ELSE /\ scr' = [scr EXCEPT !["o_gfbr_image"] = r.buffer]
                   /\ pc' = [pc EXCEPT !["fus"] = "get"]
    /\ UNCHANGED <<PipeRest, dropped, fifoVars, allocVars>>

FusPutFusn == WorkerPut("fus", "pfusn", "fusn", "i_fusn_image", yuvf_image_size, "pbrft")

FusPutBrft == WorkerPut("fus", "pbrft", "brft", "sbrf_image", nmsc_image_size, "get")

(* capture_infrared_image / capture_visual_image_thread of main.cpp *)
\* A capture thread rests inside the call that waits for the next frame.  When
\* the frame arrives it calls fusion_put_inf (memmove to i_rawi_image, then
\* fifo_put) and tests while (!sdl_quited).
CaptureIrFrame(limit) ==
    /\ Live("cir")
    /\ pc["cir"] = "recv"
    /\ irSeq < limit
    /\ LET img == Memcpy(scr["i_rawi_image"], 0, Img(irSeq + 1, ImageBytes * 2), 0,
                         ImageBytes * 2)
           r   == fifo_put(rings["rawi"], img, rawi_image_size)
       IN  /\ scr' = [scr EXCEPT !["i_rawi_image"] = img]
           /\ rings' = [rings EXCEPT !["rawi"] = r.self]
    /\ irSeq' = irSeq + 1
    /\ pc' = [pc EXCEPT !["cir"] = IF sdl_quited # 0 THEN "done" ELSE "recv"]
    /\ UNCHANGED <<out, mainpc, stop_fusn, stop_reconst, sdl_quited, visSeq, freed,
                   uaf, dropped, fifoVars, allocVars>>

\* The same for fusion_put_vis (memmove to i_rawv_image, then fifo_put).
CaptureVisFrame(limit) ==
    /\ Live("cvs")
    /\ pc["cvs"] = "recv"
    /\ visSeq < limit
    /\ LET img == Memcpy(scr["i_rawv_image"], 0, Img(visSeq + 1, OutSize), 0, OutSize)
           r   == fifo_put(rings["rawv"], img, rawv_image_size)
       IN  /\ scr' = [scr EXCEPT !["i_rawv_image"] = img]
           /\ rings' = [rings EXCEPT !["rawv"] = r.self]
    /\ visSeq' = visSeq + 1
    /\ pc' = [pc EXCEPT !["cvs"] = IF sdl_quited # 0 THEN "done" ELSE "recv"]
    /\ UNCHANGED <<out, mainpc, stop_fusn, stop_reconst, sdl_quited, irSeq, freed,
                   uaf, dropped, fifoVars, allocVars>>

CaptureIrPut == CaptureIrFrame(MaxFrames)

CaptureVisPut == CaptureVisFrame(MaxVisFrames)

(* fusion_get, fusion_get_inf, fusion_get_vis, fusion_get_ibf as main calls   *)
(* them: if (fusion_get(..) && fusion_get_inf(..) && fusion_get_vis(..) &&    *)
(* fusion_get_ibf(..)); a 0 ends the condition and, after SDL_PollEvent, the  *)
(* loop starts again at fusion_get.                                           *)
FusionGetCall(at, rn, tmp, len, dst, n, okpc) ==
    /\ mainpc = at
    /\ ~freed
    /\ LET r == fifo_get(rings[rn], scr[tmp], len)
       IN  /\ rings' = [rings EXCEPT ![rn] = r.self]
           /\ scr' = [scr EXCEPT ![tmp] = r.buffer]
           /\ out' = [out EXCEPT ![dst] = CopyIfWhole(r.ret, len, out[dst], r.buffer, n)]
           /\ mainpc' = IF GetReturn(r.ret, len) = 1 THEN okpc ELSE "g1"
    /\ UNCHANGED <<pc, stop_fusn, stop_reconst, sdl_quited, irSeq, visSeq, freed, uaf,
                   dropped, fifoVars, allocVars>>

fusion_get ==
    FusionGetCall("g1", "fusn", "o_fusn_image", yuvf_image_size, "fusn_image", OutSize, "g2")

fusion_get_inf ==
    FusionGetCall("g2", "iout", "iout_image", yuvf_image_size, "gsci_image", OutSize, "g3")

fusion_get_vis ==
    FusionGetCall("g3", "vout", "vout_image", yuvf_image_size, "regt_image", OutSize, "g4")

fusion_get_ibf ==
    FusionGetCall("g4", "brft", "fout_image", nmsc_image_size, "ibrf_image", ImageBytes,
                  "show")

\* All four returned 1: SDL_UpdateTexture .. SDL_RenderPresent, SDL_PollEvent.
Render ==
    /\ mainpc = "show"
    /\ ~freed
    /\ mainpc' = "g1"
    /\ UNCHANGED <<rings, scr, out, pc, stop_fusn, stop_reconst, sdl_quited, irSeq,
                   visSeq, freed, uaf, dropped, fifoVars, allocVars>>

FifoIdle ==
    /\ ring = fifo_alloc(RingBytes, 0)
    /\ obuf = [i \in 0 .. RecSize - 1 |-> 0]
    /\ op = [name |-> "none", size |-> 0, ret |-> 0]
    /\ nput = 0
    /\ accepted = <<>>
    /\ returned = <<>>
    /\ nbytes = 0

\* The instance as fusion_init and bkgreconst_init leave it.
PipeObjects ==
    /\ rings = [n \in RingNames |-> fifo_alloc(RingAlloc(n), 0)]
    /\ scr = [n \in DOMAIN ScratchSize |-> Img(0, ScratchSize[n])]
    /\ out = [fusn_image |-> Img(0, OutSize), gsci_image |-> Img(0, OutSize),
              regt_image |-> Img(0, OutSize), ibrf_image |-> Img(0, OutSize)]
    /\ stop_fusn = 0
    /\ stop_reconst = 0
    /\ sdl_quited = 0
    /\ irSeq = 0
    /\ visSeq = 0
    /\ freed = FALSE
    /\ uaf = {}
    /\ dropped = "none"

\* Steady state: fusion_start and both capture starts have succeeded and main
\* is in its display loop.
PipeInit ==
    /\ FifoIdle
    /\ AllocIdle
    /\ PipeObjects
    /\ pc = [t \in Threads |-> IF t \in Captures THEN "recv" ELSE "get"]
    /\ mainpc = "g1"

PipeNext ==
    \/ IrpGet
    \/ IrpBkgPutInfd
    \/ IrpBkgPutInfm
    \/ IrpPutGsci
    \/ IrpPutIout
    \/ VspGet
    \/ VspPutRegt
    \/ VspPutVout
    \/ MnfGet
    \/ MnfPut
    \/ QdtGet
    \/ QdtPut
    \/ BkgGetMinf
    \/ BkgGetBlob
    \/ BkgPut
    \/ FusGetGsci
    \/ FusGetRegt
    \/ FusGetBkg
    \/ FusPutFusn
    \/ FusPutBrft
    \/ CaptureIrPut
    \/ CaptureVisPut
    \/ fusion_get
    \/ fusion_get_inf
    \/ fusion_get_vis
    \/ fusion_get_ibf
    \/ Render

SpecPipe == PipeInit /\ [][PipeNext]_vars

(***************************************************************************)
(* The life of the instance in main.cpp: fusion_start, the capture starts, *)
(* SDL set-up, the display loop, fusion_stop, and the clean: label with    *)
(* Sleep(1000) and fusion_delete.  Every thread is created detached and    *)
(* nothing joins or waits for one.                                         *)
(***************************************************************************)
\* A failed start that leaves the stop flag as it was.
stop_on_failed_start_keep(flag) == flag

\* self->stop_fusn = 1 / self->stop_reconst = 1 on the failure branches of
\* fusion_start and bkgreconst_start.
stop_on_failed_start(flag) == 1

\* A stop that leaves the flag as it was.
bkgreconst_stop_keep(flag) == flag

\* bkgreconst_stop: self->stop_reconst = 1.
bkgreconst_stop(flag) == 1

\* pthread_create of worker w at position at: on success the thread starts at
\* the head of its loop; on failure the flags get the values given and the
\* start returns -1.
StartWorker(at, w, okpc, failFusn, failReconst) ==
    /\ mainpc = at
    /\ \E ok \in BOOLEAN :
          IF ok
          THEN /\ pc' = [pc EXCEPT ![w] = "get"]
               /\ mainpc' = okpc
               /\ UNCHANGED <<stop_fusn, stop_reconst>>
          ELSE /\ mainpc' = "start_failed"
               /\ stop_fusn' = failFusn
               /\ stop_reconst' = failReconst
               /\ UNCHANGED pc
    /\ UNCHANGED <<rings, scr, out, sdl_quited, irSeq, visSeq, freed, uaf, dropped,
                   fifoVars, allocVars>>

(* fusion_start *)
StartFusionThread == StartWorker("s_fus", "fus", "s_irp", stop_fusn, stop_reconst)

StartPreprocessInfrared ==
    StartWorker("s_irp", "irp", "s_vsp", stop_on_failed_start(stop_fusn), stop_reconst)

StartPreprocessVisual ==
    StartWorker("s_vsp", "vsp", "s_bkg", stop_on_failed_start(stop_fusn), stop_reconst)

(* bkgreconst_start, called last by fusion_start *)
StartBkgreconstThread ==
    StartWorker("s_bkg", "bkg", "s_mnf", stop_on_failed_start(stop_fusn), stop_reconst)

StartMinimumFilter ==
    StartWorker("s_mnf", "mnf", "s_qdt", stop_on_failed_start(stop_fusn),
                stop_on_failed_start(stop_reconst))

StartQuadtreeDecomp ==
    StartWorker("s_qdt", "qdt", "s_cir", stop_on_failed_start(stop_fusn),
                stop_on_failed_start(stop_reconst))

\* capture_infrared_image_start / capture_visual_image_start / SDL set-up in
\* main: a failure is a goto clean.
MainSetup(at, t, okpc) ==
    /\ mainpc = at
    /\ \E ok \in BOOLEAN :
          IF ok
          THEN /\ pc' = IF t \in Captures THEN [pc EXCEPT ![t] = "recv"] ELSE pc
               /\ mainpc' = okpc
          ELSE /\ mainpc' = "abort"
               /\ UNCHANGED pc
    /\ UNCHANGED <<rings, scr, out, stop_fusn, stop_reconst, sdl_quited, irSeq, visSeq,
                   freed, uaf, dropped, fifoVars, allocVars>>

StartCaptureInfrared == MainSetup("s_cir", "cir", "s_cvs")

StartCaptureVisual == MainSetup("s_cvs", "cvs", "s_sdl")

SdlSetup == MainSetup("s_sdl", "sdl", "g1")

\* SDL_PollEvent delivered SDL_QUIT: sdl_quited = 1 and the display loop ends.
SdlQuit ==
    /\ mainpc = "g1"
    /\ sdl_quited' = 1
    /\ mainpc' = "stop"
    /\ UNCHANGED <<rings, scr, out, pc, stop_fusn, stop_reconst, irSeq, visSeq, freed,
                   uaf, dropped, fifoVars, allocVars>>

\* fusion_stop: self->stop_fusn = 1; bkgreconst_stop(self->breconst).
fusion_stop ==
    /\ mainpc = "stop"
    /\ stop_fusn' = 1
    /\ stop_reconst' = bkgreconst_stop(stop_reconst)
    /\ mainpc' = "stopped"
    /\ UNCHANGED <<rings, scr, out, pc, sdl_quited, irSeq, visSeq, freed, uaf, dropped,
                   fifoVars, allocVars>>

\* A capture thread whose wait for a frame ended without one and that finds
\* sdl_quited set leaves its loop; it touches nothing of the instance.
CaptureLeave(t) ==
    /\ pc[t] = "recv"
    /\ mainpc # "exited"
    /\ sdl_quited # 0
    /\ pc' = [pc EXCEPT ![t] = "done"]
    /\ UNCHANGED <<rings, scr, out, mainpc, stop_fusn, stop_reconst, sdl_quited, irSeq,
                   visSeq, freed, uaf, dropped, fifoVars, allocVars>>

CaptureIrLeave == CaptureLeave("cir")

CaptureVisLeave == CaptureLeave("cvs")

LifeCaptureIrPut == CaptureIrFrame(MaxLifeFrames)

LifeCaptureVisPut == CaptureVisFrame(MaxLifeFrames)

\* clean: Sleep(1000); free of main's images; if (fusion) fusion_delete(fusion).
\* Reached by falling through after fusion_stop and by every goto clean.
fusion_delete ==
    /\ mainpc \in {"start_failed", "abort", "stopped"}
    /\ freed' = TRUE
    /\ mainpc' = "deleted"
    /\ UNCHANGED <<rings, scr, out, pc, stop_fusn, stop_reconst, sdl_quited, irSeq,
                   visSeq, uaf, dropped, fifoVars, allocVars>>

\* The rest of clean: and return 0: the process ends and with it every thread.
MainReturn ==
    /\ mainpc = "deleted"
    /\ mainpc' = "exited"
    /\ UNCHANGED <<rings, scr, out, pc, stop_fusn, stop_reconst, sdl_quited, irSeq,
                   visSeq, freed, uaf, dropped, fifoVars, allocVars>>

\* A thread still inside its loop takes its next step on the released
\* instance: it reads a flag, a ring or a scratch image that fusion_delete has
\* freed.  What that does is not defined: the thread may fault, which ends the
\* process, may happen to leave its loop, or may carry on.  uaf names the
\* first thread to do so; what the process does after that is left open.
UseAfterFree ==
    /\ freed
    /\ mainpc # "exited"
    /\ uaf = {}
    /\ \E t \in Threads :
          /\ pc[t] \notin {"off", "done", "fault"}
          /\ uaf' = {t}
          /\ \E o \in {"fault", "done", pc[t]} :
                /\ pc' = [pc EXCEPT ![t] = o]
                /\ mainpc' = IF o = "fault" THEN "exited" ELSE mainpc
    /\ UNCHANGED <<rings, scr, out, stop_fusn, stop_reconst, sdl_quited, irSeq,
                   visSeq, freed, dropped, fifoVars, allocVars>>

\* After fusion_init has returned 0: no thread exists yet.
LifeInit ==
    /\ FifoIdle
    /\ AllocIdle
    /\ PipeObjects
    /\ pc = [t \in Threads |-> "off"]
    /\ mainpc = "s_fus"

FusStep == FusGetGsci \/ FusGetRegt \/ FusGetBkg \/ FusPutFusn \/ FusPutBrft

IrpStep == IrpGet \/ IrpBkgPutInfd \/ IrpBkgPutInfm \/ IrpPutGsci \/ IrpPutIout

VspStep == VspGet \/ VspPutRegt \/ VspPutVout

MnfStep == MnfGet \/ MnfPut

QdtStep == QdtGet \/ QdtPut

BkgStep == BkgGetMinf \/ BkgGetBlob \/ BkgPut

\* The program up to and including fusion_stop.
StopNext ==
    \/ StartFusionThread
    \/ StartPreprocessInfrared
    \/ StartPreprocessVisual
    \/ StartBkgreconstThread
    \/ StartMinimumFilter
    \/ StartQuadtreeDecomp
    \/ StartCaptureInfrared
    \/ StartCaptureVisual
    \/ SdlSetup
    \/ FusStep
    \/ IrpStep
    \/ VspStep
    \/ MnfStep
    \/ QdtStep
    \/ BkgStep
    \/ LifeCaptureIrPut
    \/ LifeCaptureVisPut
    \/ CaptureIrLeave
    \/ CaptureVisLeave
    \/ fusion_get
    \/ fusion_get_inf
    \/ fusion_get_vis
    \/ fusion_get_ibf
    \/ Render
    \/ SdlQuit
    \/ fusion_stop

\* A step of any of the six workers.
WorkerStep == FusStep \/ IrpStep \/ VspStep \/ MnfStep \/ QdtStep \/ BkgStep

\* The scheduler keeps running the worker threads: as long as some worker has a
\* step that changes the state, a worker step is eventually taken.
WorkerFairness == WF_vars(WorkerStep)

SpecStop == LifeInit /\ [][StopNext]_vars /\ WorkerFairness

\* The whole program, clean: included.
LifeNext ==
    \/ StopNext
    \/ fusion_delete
    \/ MainReturn
    \/ UseAfterFree

SpecLife == LifeInit /\ [][LifeNext]_vars

(***************************************************************************)
(* Construction: fusion_new, fusion_init and its clean: label, and the     *)
(* clean: label of main that follows a failed fusion_init.                 *)
(***************************************************************************)
RingFields ==
    <<"rawi_ring", "rawv_ring", "gsci_ring", "regt_ring", "fusn_ring", "iout_ring",
      "vout_ring", "brft_ring">>

ImageFields ==
    <<"hist", "i_rawi_image", "i_rawv_image", "o_rawi_image", "o_rawv_image",
      "i_gsci_image", "i_regt_image", "o_gsci_image", "o_regt_image", "bkgr_image",
      "etbk_image", "brft_image", "rfbf_image", "sbrf_image", "usfn_image",
      "i_fusn_image", "o_fusn_image", "iout_image", "vout_image", "fout_image">>

\* The steps of fusion_init in their order.
InitOrder ==
    <<"contrl_points">> \o RingFields
        \o <<"regist", "rm_regist_init", "breconst", "bkgreconst_init", "RDC_Init">>
        \o ImageFields

\* main is at a label, or at step k of fusion_init.
At(label) == [at |-> label, k |-> 0]

InitAt(k) == [at |-> "init", k |-> k]

Range(q) == {q[i] : i \in DOMAIN q}

\* The tables rm_regist_init allocates inside the Registration.
RegistTabs == "regist.row_inter_tab/col_inter_tab"

\* Every pointer the construction sets.
Fields == (Range(InitOrder) \ {"rm_regist_init", "bkgreconst_init", "RDC_Init"})
              \cup {RegistTabs}

Resources == Fields \cup {"self"}

\* The pointers fusion_delete tests and releases: all but contrl_points.
DeleteTests == Fields \ {"contrl_points"}

\* The pointers fusion_delete sets to NULL after the release.
ClearedAfterFree == Range(ImageFields)

\* A pointer that is not NULL as far as anyone knows: it is passed on to the
\* release function.
Released(F, f) ==
    IF f = RegistTabs
    THEN F["regist"] \in {"live", "dangling"} /\ F[f] \in {"live", "dangling"}
    ELSE F[f] \in {"live", "dangling"}

\* A pointer that was never set and that fusion_delete reads.
ReadsGarbage(F) ==
    \E f \in DeleteTests :
        /\ F[f] = "garbage"
        /\ f = RegistTabs => F["regist"] \in {"live", "dangling"}

Bump(n) == IF n < 2 THEN n + 1 ELSE n

\* fusion_delete(self) on pointer values F with release counts N: every
\* pointer that is not NULL is released, the images are then set to NULL, the
\* rings, regist and breconst are not, and self is freed.
FusionDeleteFields(F) ==
    [f \in Fields |->
        IF f \in DeleteTests /\ Released(F, f)
        THEN IF f \in ClearedAfterFree THEN "null" ELSE "dangling"
        ELSE F[f]]

FusionDeleteCounts(F, N) ==
    [r \in Resources |->
        IF r = "self" \/ (r \in DeleteTests /\ Released(F, r)) THEN Bump(N[r]) ELSE N[r]]

AllocRest == <<ring, obuf, op, nput, accepted, returned, nbytes, rings, scr, out, pc,
               mainpc, stop_fusn, stop_reconst, sdl_quited, irSeq, visSeq, freed, uaf,
               dropped, fn>>

\* fusion_new: malloc(sizeof(Fusion)); nothing in the block is set.  main
\* goes to clean: when the result is NULL.
fusion_new ==
    /\ ipc = At("new")
    /\ \E ok \in BOOLEAN :
          IF ok
          THEN /\ ipc' = InitAt(1)
               /\ got' = {"self"}
          ELSE /\ ipc' = At("end")
               /\ UNCHANGED got
    /\ UNCHANGED <<fld, nrel, wild, AllocRest>>

\* One allocation of fusion_init: the pointer is set; NULL is a goto clean.
InitAlloc ==
    /\ ipc.at = "init"
    /\ InitOrder[ipc.k] \in Fields \ {"breconst"}
    /\ \E ok \in BOOLEAN :
          IF ok
          THEN /\ fld' = [fld EXCEPT ![InitOrder[ipc.k]] = "live"]
               /\ got' = got \cup {InitOrder[ipc.k]}
               /\ ipc' = IF ipc.k = Len(InitOrder) THEN At("ok") ELSE InitAt(ipc.k + 1)
          ELSE /\ fld' = [fld EXCEPT ![InitOrder[ipc.k]] = "null"]
               /\ ipc' = At("clean")
               /\ UNCHANGED got
    /\ UNCHANGED <<nrel, wild, AllocRest>>

\* rm_regist_init: returns -1 before it allocates when npoints is too small,
\* else allocates the two tables.
InitRegist ==
    /\ ipc.at = "init"
    /\ InitOrder[ipc.k] = "rm_regist_init"
    /\ \E ok \in BOOLEAN :
          IF ok
          THEN /\ fld' = [fld EXCEPT ![RegistTabs] = "live"]
               /\ got' = got \cup {RegistTabs}
               /\ ipc' = InitAt(ipc.k + 1)
          ELSE /\ ipc' = At("clean")
               /\ UNCHANGED <<fld, got>>
    /\ UNCHANGED <<nrel, wild, AllocRest>>

\* self->breconst = bkgreconst_new(); if (!self) ..: a NULL goes unnoticed.
InitBreconstNew ==
    /\ ipc.at = "init"
    /\ InitOrder[ipc.k] = "breconst"
    /\ \E ok \in BOOLEAN :
          IF ok
          THEN /\ fld' = [fld EXCEPT !["breconst"] = "live"]
               /\ got' = got \cup {"breconst"}
          ELSE /\ fld' = [fld EXCEPT !["breconst"] = "null"]
               /\ UNCHANGED got
    /\ ipc' = InitAt(ipc.k + 1)
    /\ UNCHANGED <<nrel, wild, AllocRest>>

\* bkgreconst_init: assert(self) stops the program on NULL; on a failure of
\* its own it calls bkgreconst_delete(self), which releases the BkgReconst
\* (and whatever its pointers, set or not, hold) and returns -1.  The pointer
\* in the Fusion keeps its value.
InitBreconst ==
    /\ ipc.at = "init"
    /\ InitOrder[ipc.k] = "bkgreconst_init"
    /\ IF fld["breconst"] = "null"
       THEN /\ ipc' = At("aborted")
            /\ UNCHANGED <<fld, nrel, wild>>
       ELSE \E ok \in BOOLEAN :
               IF ok
               THEN /\ ipc' = InitAt(ipc.k + 1)
                    /\ UNCHANGED <<fld, nrel, wild>>
               ELSE /\ fld' = [fld EXCEPT !["breconst"] = "dangling"]
                    /\ nrel' = [nrel EXCEPT !["breconst"] = Bump(@)]
                    /\ \E w \in BOOLEAN : wild' = (wild \/ w)
                    /\ ipc' = At("clean")
    /\ UNCHANGED <<got, AllocRest>>

\* RDC_Init: allocates nothing here; a failure is a goto clean.
InitRDC ==
    /\ ipc.at = "init"
    /\ InitOrder[ipc.k] = "RDC_Init"
    /\ \E ok \in BOOLEAN : ipc' = IF ok THEN InitAt(ipc.k + 1) ELSE At("clean")
    /\ UNCHANGED <<fld, nrel, got, wild, AllocRest>>

\* clean: fusion_delete(self); return -1;  A pointer that was never set may
\* read as NULL or not: w says whether one of them was released.
InitClean ==
    /\ ipc = At("clean")
    /\ fld' = FusionDeleteFields(fld)
    /\ nrel' = FusionDeleteCounts(fld, nrel)
    /\ \E w \in BOOLEAN : wild' = (wild \/ (w /\ ReadsGarbage(fld)))
    /\ ipc' = At("init_failed")
    /\ UNCHANGED <<got, AllocRest>>

\* main after fusion_init returned -1: goto clean, where fusion is still not
\* NULL: if (fusion) fusion_delete(fusion).  The block is released already;
\* reading it may end the program, or the stale values are used once more.
MainCleanAfterFailedInit ==
    /\ ipc = At("init_failed")
    /\ \E o \in {"fault", "again"} :
          IF o = "fault"
          THEN /\ ipc' = At("aborted")
               /\ nrel' = [nrel EXCEPT !["self"] = Bump(@)]
               /\ UNCHANGED fld
          ELSE /\ ipc' = At("end")
               /\ fld' = FusionDeleteFields(fld)
               /\ nrel' = FusionDeleteCounts(fld, nrel)
    /\ UNCHANGED <<got, wild, AllocRest>>

AllocInit ==
    /\ FifoIdle
    /\ rings = <<>>
    /\ scr = <<>>
    /\ out = <<>>
    /\ pc = <<>>
    /\ mainpc = "init"
    /\ stop_fusn = 0
    /\ stop_reconst = 0
    /\ sdl_quited = 0
    /\ irSeq = 0
    /\ visSeq = 0
    /\ freed = FALSE
    /\ uaf = {}
    /\ dropped = "none"
    /\ ipc = At("new")
    /\ fld = [f \in Fields |-> "garbage"]
    /\ nrel = [r \in Resources |-> 0]
    /\ got = {}
    /\ wild = FALSE
    /\ FnIdle

AllocNext ==
    \/ fusion_new
    \/ InitAlloc
    \/ InitRegist
    \/ InitBreconstNew
    \/ InitBreconst
    \/ InitRDC
    \/ InitClean
    \/ MainCleanAfterFailedInit

SpecInit == AllocInit /\ [][AllocNext]_vars

(***************************************************************************)
(* Claims about the running pipeline.                                      *)
(***************************************************************************)
\* Every fifo_put a worker stage makes: the worker, its position, the ring.
PutSites ==
    {[w |-> "irp", at |-> "bput1", rn |-> "infd"],
     [w |-> "irp", at |-> "bput2", rn |-> "infm"],
     [w |-> "irp", at |-> "pgsci", rn |-> "gsci"],
     [w |-> "irp", at |-> "piout", rn |-> "iout"],
     [w |-> "vsp", at |-> "pregt", rn |-> "regt"],
     [w |-> "vsp", at |-> "pvout", rn |-> "vout"],
     [w |-> "mnf", at |-> "put", rn |-> "minf"],
     [w |-> "qdt", at |-> "put", rn |-> "blob"],
     [w |-> "bkg", at |-> "put", rn |-> "gfbr"],
     [w |-> "fus", at |-> "pfusn", rn |-> "fusn"],
     [w |-> "fus", at |-> "pbrft", rn |-> "brft"]}

\* C5: when a worker's fifo_put on an output ring returns fewer bytes than the
\* record size (the put that logs the warning), the ring is left exactly as it
\* was, record and counters, and the worker has moved on to a later statement
\* of its loop: it has not stayed at the put and has not left the loop.
C5_DropAndContinue ==
    [][\A s \in PutSites :
          (pc[s.w] = s.at /\ pc'[s.w] # s.at /\ dropped' = s.rn)
              => /\ rings'[s.rn] = rings[s.rn]
                 /\ Stored(rings'[s.rn]) = Stored(rings[s.rn])
                 /\ pc'[s.w] \notin {"off", "done", "fault"}]_vars

\* The minimum filter dropped a record on the full minf ring and is back at the
\* head of its loop, the ring still holding the earlier record.
C5_Witness ==
    /\ dropped = "minf"
    /\ pc["mnf"] = "get"
    /\ __fifo_len(rings["minf"]) = RingAlloc("minf")
    /\ Tag(scr["i_minf_image"]) # Stored(rings["minf"])[1]

\* The four getters main calls: position, ring, record length, destination,
\* bytes copied, position after a return of 1.
GetSites ==
    {[at |-> "g1", rn |-> "fusn", len |-> yuvf_image_size, dst |-> "fusn_image",
      n |-> OutSize, ok |-> "g2"],
     [at |-> "g2", rn |-> "iout", len |-> yuvf_image_size, dst |-> "gsci_image",
      n |-> OutSize, ok |-> "g3"],
     [at |-> "g3", rn |-> "vout", len |-> yuvf_image_size, dst |-> "regt_image",
      n |-> OutSize, ok |-> "g4"],
     [at |-> "g4", rn |-> "brft", len |-> nmsc_image_size, dst |-> "ibrf_image",
      n |-> ImageBytes, ok |-> "show"]}

\* C6: a call of fusion_get, fusion_get_inf, fusion_get_vis or fusion_get_ibf
\* is one step that is always possible.  It returns 1 exactly when the ring
\* held a whole record, that record (the oldest) left the ring and its first
\* bytes are now in the caller's buffer; otherwise nothing left the ring and
\* no caller buffer changed.
C6_GetWholeOrNothing ==
    [][\A s \in GetSites :
          mainpc = s.at =>
              IF mainpc' = s.ok
              THEN /\ __fifo_len(rings[s.rn]) >= s.len
                   /\ Stored(rings'[s.rn]) =
                          SubSeq(Stored(rings[s.rn]), s.len + 1, __fifo_len(rings[s.rn]))
                   /\ \A i \in 0 .. s.n - 1 :
                          out'[s.dst][i] = Stored(rings[s.rn])[i + 1]
                   /\ \A d \in DOMAIN out : d # s.dst => out'[d] = out[d]
              ELSE /\ IsPrefix(Stored(rings[s.rn]), Stored(rings'[s.rn]))
                   /\ out' = out]_vars

\* fusion_get and fusion_get_inf have each returned 1 and delivered a frame,
\* and fusion_get_vis has returned 0 on its empty ring.
C6_Witness ==
    /\ mainpc = "g1"
    /\ Tag(out["fusn_image"]) # 0
    /\ Tag(out["gsci_image"]) # 0
    /\ Tag(out["regt_image"]) = 0

(***************************************************************************)
(* Claims about starting and stopping.                                     *)
(***************************************************************************)
\* The stop flag a worker's loop tests.
StopFlagOf(w) == IF w \in {"fus", "irp", "vsp"} THEN stop_fusn ELSE stop_reconst

C8_ShutdownWaits ==
    /\ freed => \A t \in Threads :
                    /\ pc[t] \in {"off", "done"}
                    /\ t \in Workers /\ pc[t] = "done" => StopFlagOf(t) # 0
    /\ uaf = {}

\* C9: after fusion_init has failed and returned -1, and still after the
\* caller's clean-up, every resource that was allocated has been released
\* exactly once, no resource has been released twice, and no pointer that was
\* never set has been released.
C9_ReleaseExactlyOnce ==
    /\ ~wild
    /\ \A r \in Resources : nrel[r] <= 1
    /\ ipc.at \in {"init_failed", "end"} => \A r \in got : nrel[r] = 1

(***************************************************************************)
(* Registration set-up: get_text_lines and the malloc of contrl_points in  *)
(* fusion_init, then rm_regist_init.                                       *)
(***************************************************************************)
MIN_POINT_SIZE == 6

\* The base-image points a line of control_points.txt can name.
CtrlPoints == {<<0, 0>>, <<1, 0>>, <<2, 0>>, <<0, 1>>}

RECURSIVE SeqsUpTo(_, _)
SeqsUpTo(S, n) ==
    IF n = 0 THEN {<<>>}
    ELSE LET shorter == SeqsUpTo(S, n - 1)
         IN  shorter \cup {Append(q, x) : q \in {t \in shorter : Len(t) = n - 1}, x \in S}

\* FnQuiet: every other part of the program is at rest.
FnQuiet == FifoIdle /\ PipeQuiet /\ AllocQuiet

\* get_text_lines: -1 when the file cannot be opened, else the number of '\n'
\* characters; a last line without '\n' is not counted.
get_text_lines(missing, lines, lastnl) ==
    IF missing THEN 0 - 1
    ELSE IF Len(lines) > 0 /\ ~lastnl THEN Len(lines) - 1 ELSE Len(lines)

\* rm_regist_init: if (npoints < MIN_POINT_SIZE) return -1; else the tables
\* are loaded or computed and it returns 0.  Nothing looks at the points.
rm_regist_init(npoints) == IF npoints < MIN_POINT_SIZE THEN 0 - 1 ELSE 0

RegistInitial ==
    /\ FnQuiet
    /\ \E missing \in BOOLEAN, lines \in SeqsUpTo(CtrlPoints, MaxLines),
          lastnl \in BOOLEAN, tables \in {"load", "compute"} :
          /\ missing => (lines = <<>> /\ lastnl)
          /\ lines = <<>> => lastnl
          /\ fn = [op |-> "regist", pc |-> "lines", missing |-> missing, lines |-> lines,
                   lastnl |-> lastnl, tables |-> tables, npoints |-> 0, ret |-> 0]

FnRest == <<ring, obuf, op, nput, accepted, returned, nbytes, rings, scr, out, pc,
            mainpc, stop_fusn, stop_reconst, sdl_quited, irSeq, visSeq, freed, uaf,
            dropped, ipc, fld, nrel, got, wild>>

\* fusion_init: self->npoints = get_text_lines("control_points.txt"), then
\* malloc(npoints * sizeof(int) * 2), which fails for npoints = -1 and may
\* return NULL for npoints = 0.  The points of the file are never read into
\* the block.
ReadControlPoints ==
    /\ fn.op = "regist"
    /\ fn.pc = "lines"
    /\ LET n == get_text_lines(fn.missing, fn.lines, fn.lastnl)
       IN  \E null \in BOOLEAN :
              /\ n < 0 => null
              /\ n > 0 => ~null
              /\ fn' = [fn EXCEPT !.npoints = n,
                                  !.pc = IF null THEN "done" ELSE "regist",
                                  !.ret = IF null THEN 0 - 1 ELSE 0]
    /\ UNCHANGED FnRest

\* fusion_init: if (rm_regist_init(..)) goto clean.
RegistInit ==
    /\ fn.op = "regist"
    /\ fn.pc = "regist"
    /\ fn' = [fn EXCEPT !.ret = rm_regist_init(fn.npoints), !.pc = "done"]
    /\ UNCHANGED FnRest

RegistNext ==
    \/ ReadControlPoints
    \/ RegistInit

SpecRegist == RegistInitial /\ [][RegistNext]_vars

Collinear(p, q, r) ==
    (q[1] - p[1]) * (r[2] - p[2]) - (q[2] - p[2]) * (r[1] - p[1]) = 0

\* The file names three points that are not on one line.
ThreeNonCollinear(lines) ==
    \E i, j, k \in DOMAIN lines : ~Collinear(lines[i], lines[j], lines[k])

\* C11: when the tables must be computed, the registration set-up returns 0
\* if the file supplies three or more pairs that are not collinear, and -1 if
\* it does not.
C11_RegistInitResult ==
    (fn.op = "regist" /\ fn.pc = "done" /\ fn.tables = "compute")
        => (fn.ret = 0 <=> (~fn.missing /\ ThreeNonCollinear(fn.lines)))

(***************************************************************************)
(* Raw data converter: RDC_SendRawData (RecombineRawFrame) and the places  *)
(* where CLAHE uses a recombined value as an index.                        *)
(***************************************************************************)
NUMBER_OF_GRAYLEVELS == 16384

\* Byte values a raw frame is drawn from: both values of every bit that the
\* recombination masks, shifts or drops.
RawBytes == {0, 1, 63, 64, 127, 128, 255}

\* The two bodies RecombineRawFrame is compiled from.
Builds == {"scalar", "neon"}

\* low8bits = 0x00FF & src[2i]; hig8bits = src[2i + 1] & 0x7F;
\* dst[i] = (hig8bits << 8) + low8bits.
RecombineScalar(lo, hi) == BitAnd(hi, 127) * 256 + BitAnd(lo, 255)

\* __ARM_NEON__: the odd bytes are masked with 0x7F and shifted left by one
\* inside their byte, the even bytes shifted right by one inside theirs, and
\* the two byte vectors are added as little-endian 16-bit lanes.
RecombineNeon(lo, hi) == ((BitAnd(hi, 127) * 2) % 256) * 256 + (BitAnd(lo, 255) \div 2)

\* RecombineRawFrame(src, len, dst): nPixels = len / 2, one dst word per pair
\* of bytes (src[2i - 1] is the first byte of pixel i here).
RecombineRawFrame(build, src) ==
    [i \in 1..(Len(src) \div 2) |->
        IF build = "neon" THEN RecombineNeon(src[2 * i - 1], src[2 * i])
        ELSE RecombineScalar(src[2 * i - 1], src[2 * i])]

RECURSIVE SeqsOfLen(_, _)
SeqsOfLen(S, n) ==
    IF n = 0 THEN {<<>>}
    ELSE {Append(q, x) : q \in SeqsOfLen(S, n - 1), x \in S}

RecombineInitial ==
    /\ FnQuiet
    /\ \E build \in Builds, src \in SeqsOfLen(RawBytes, 2 * RawPixels) :
          fn = [op |-> "rdc", pc |-> "send", build |-> build, src |-> src,
                rawData |-> <<>>, histAt |-> {}, mapAt |-> {}]

\* RDC_SendRawData: RecombineRawFrame(pu8Buf, u32Len, recombData);
\* rawData = recombData.
RDC_SendRawData ==
    /\ fn.op = "rdc"
    /\ fn.pc = "send"
    /\ fn' = [fn EXCEPT !.rawData = RecombineRawFrame(fn.build, fn.src), !.pc = "get"]
    /\ UNCHANGED FnRest

\* RDC_GetFrame -> CLAHE: CalHist does hist[img[i]]++ and the last loop reads
\* map[src[i]] for every pixel; histAt and mapAt are the indices used.
CLAHEIndices ==
    /\ fn.op = "rdc"
    /\ fn.pc = "get"
    /\ fn' = [fn EXCEPT !.histAt = Range(fn.rawData), !.mapAt = Range(fn.rawData),
                        !.pc = "done"]
    /\ UNCHANGED FnRest

RecombineNext ==
    \/ RDC_SendRawData
    \/ CLAHEIndices

SpecRecombine == RecombineInitial /\ [][RecombineNext]_vars

\* C12: every recombined word is the low seven bits of the second byte of its
\* pair, shifted left by seven, joined with the low seven bits of the first.
C12_RecombineSevenBits ==
    (fn.op = "rdc" /\ fn.pc # "send")
        => \A i \in 1..RawPixels :
              fn.rawData[i] = BitAnd(fn.src[2 * i], 127) * 128 + BitAnd(fn.src[2 * i - 1], 127)

\* C13: every recombined value is in 0..0x3FFF, so neither the histogram nor
\* the map table, both of 16384 entries, is indexed outside its bounds.
C13_RecombinedInRange ==
    (fn.op = "rdc" /\ fn.pc # "send")
        => /\ \A i \in 1..RawPixels : fn.rawData[i] \in 0..(NUMBER_OF_GRAYLEVELS - 1)
           /\ \A v \in fn.histAt \cup fn.mapAt : v \in 0..(NUMBER_OF_GRAYLEVELS - 1)

(***************************************************************************)
(* CLAHE: CalHist, RearrangeHist, the clip level, ClipHist, StretchHist    *)
(* and the table lookups that produce claheData.                           *)
(***************************************************************************)
cutThresh == 4
clipLimit == 1
BLACK == 0
WHITE == 255

Max(a, b) == IF a > b THEN a ELSE b

\* Conversions to unsigned short, unsigned char, unsigned long and long.
U16(x) == x % 65536
U8(x) == x % 256
ULong(x) == x % (2 ^ ULongBits)
ToLong(u) == IF u >= 2 ^ (ULongBits - 1) THEN u - 2 ^ ULongBits ELSE u

RECURSIVE SumTo(_, _)
SumTo(h, n) == IF n = 0 THEN 0 ELSE SumTo(h, n - 1) + h[n]

Zeros(n) == [i \in 1..n |-> 0]

\* RearrangeHist, first loop, with every bin below thresh mapped to nvbs - 1.
RECURSIVE RearrangeFrom_prev(_, _, _, _)
RearrangeFrom_prev(hist, thresh, i, st) ==
    IF i = Len(hist) THEN st
    ELSE IF hist[i + 1] < thresh
         THEN RearrangeFrom_prev(hist, thresh, i + 1,
                                 [st EXCEPT !.map[i + 1] = U16(st.nvbs - 1)])
         ELSE RearrangeFrom_prev(hist, thresh, i + 1,
                                 [st EXCEPT !.nvbs = @ + 1,
                                            !.rearHist[st.nvbs + 1] = hist[i + 1],
                                            !.map[i + 1] = U16(st.nvbs),
                                            !.nvps = ULong(@ + hist[i + 1]),
                                            !.maxValidLevel = i])

\* RearrangeHist, first loop: for (i = 0; i < nBins; i++).  Bin i of the code
\* is element i + 1 here.
RECURSIVE RearrangeFrom(_, _, _, _)
RearrangeFrom(hist, thresh, i, st) ==
    IF i = Len(hist) THEN st
    ELSE IF hist[i + 1] < thresh
         THEN RearrangeFrom(hist, thresh, i + 1, [st EXCEPT !.map[i + 1] = U16(st.nvbs)])
         ELSE RearrangeFrom(hist, thresh, i + 1,
                            [st EXCEPT !.nvbs = @ + 1,
                                       !.rearHist[st.nvbs + 1] = hist[i + 1],
                                       !.map[i + 1] = U16(st.nvbs),
                                       !.nvps = ULong(@ + hist[i + 1]),
                                       !.maxValidLevel = i])

\* RearrangeHist: memset of rearHist, the first loop, then
\* for (i = maxValidLevel + 1; i < nBins; i++) map[i] = nvbs - 1.
RearrangeHist(hist, thresh) ==
    LET st == RearrangeFrom(hist, thresh, 0,
                            [nvbs |-> 0, nvps |-> 0, maxValidLevel |-> 0,
                             rearHist |-> Zeros(Len(hist)), map |-> Zeros(Len(hist))])
    IN  [rearHist |-> st.rearHist,
         nValidBins |-> st.nvbs,
         nValidPixs |-> st.nvps,
         map |-> [i \in 1..Len(hist) |->
                     IF i - 1 >= st.maxValidLevel + 1 THEN U16(st.nvbs - 1) ELSE st.map[i]]]

\* ClipHist, first loop: nClipeds is the sum of the positive
\* long excess = hist[i] - clipLevel.
RECURSIVE ClipExcess(_, _, _)
ClipExcess(hist, nBins, clipLevel) ==
    IF nBins = 0 THEN 0
    ELSE LET excess == ToLong(ULong(hist[nBins] - clipLevel))
         IN  ULong(ClipExcess(hist, nBins - 1, clipLevel) + IF excess > 0 THEN excess ELSE 0)

\* ClipHist, second loop, leaving the bins above clipLevel as they are.
RECURSIVE ClipPass_noclip(_, _, _, _, _, _)
ClipPass_noclip(h, n, i, nBins, clipLevel, nRedists) ==
    LET upper == ULong(clipLevel - nRedists)
    IN  IF i >= nBins THEN [hist |-> h, n |-> n]
        ELSE IF h[i + 1] > clipLevel
             THEN ClipPass_noclip(h, n, i + 1, nBins, clipLevel, nRedists)
             ELSE IF h[i + 1] > upper
                  THEN ClipPass_noclip([h EXCEPT ![i + 1] = clipLevel],
                                       ULong(n - (clipLevel - h[i + 1])),
                                       i + 1, nBins, clipLevel, nRedists)
                  ELSE ClipPass_noclip([h EXCEPT ![i + 1] = ULong(@ + nRedists)],
                                       ULong(n - nRedists), i + 1, nBins, clipLevel, nRedists)

\* ClipHist, second loop: bins above clipLevel are cut to it, the others take
\* nRedists each, or what brings them to clipLevel.
RECURSIVE ClipPass(_, _, _, _, _, _)
ClipPass(h, n, i, nBins, clipLevel, nRedists) ==
    LET upper == ULong(clipLevel - nRedists)
    IN  IF i >= nBins THEN [hist |-> h, n |-> n]
        ELSE IF h[i + 1] > clipLevel
             THEN ClipPass([h EXCEPT ![i + 1] = clipLevel], n, i + 1, nBins, clipLevel, nRedists)
             ELSE IF h[i + 1] > upper
                  THEN ClipPass([h EXCEPT ![i + 1] = clipLevel],
                                ULong(n - (clipLevel - h[i + 1])),
                                i + 1, nBins, clipLevel, nRedists)
                  ELSE ClipPass([h EXCEPT ![i + 1] = ULong(@ + nRedists)],
                                ULong(n - nRedists), i + 1, nBins, clipLevel, nRedists)

\* for (j = i; j < nBins && nClipeds; j += step)
RECURSIVE ClipInner(_, _, _, _, _, _)
ClipInner(h, n, j, step, nBins, clipLevel) ==
    IF j >= nBins \/ n = 0 THEN [hist |-> h, n |-> n]
    ELSE IF h[j + 1] < clipLevel
         THEN ClipInner([h EXCEPT ![j + 1] = ULong(@ + 1)], n - 1, j + step, step,
                        nBins, clipLevel)
         ELSE ClipInner(h, n, j + step, step, nBins, clipLevel)

\* for (i = 0; i < nBins && nClipeds; i++) with step = Max(nClipeds / nBins, 1)
RECURSIVE ClipOuter(_, _, _, _, _)
ClipOuter(h, n, i, nBins, clipLevel) ==
    IF i >= nBins \/ n = 0 THEN [hist |-> h, n |-> n]
    ELSE LET r == ClipInner(h, n, i, Max(n \div nBins, 1), nBins, clipLevel)
         IN  ClipOuter(r.hist, r.n, i + 1, nBins, clipLevel)

\* do { ... } while (nClipeds && nClipeds < nPrevClipeds)
RECURSIVE ClipRounds(_, _, _, _)
ClipRounds(h, n, nBins, clipLevel) ==
    LET r == ClipOuter(h, n, 0, nBins, clipLevel)
    IN  IF r.n # 0 /\ r.n < n THEN ClipRounds(r.hist, r.n, nBins, clipLevel) ELSE r

\* ClipHist(hist, nBins, clipLevel) for nBins > 0: the histogram it leaves.
ClipHist(hist, nBins, clipLevel) ==
    LET nClipeds == ClipExcess(hist, nBins, clipLevel)
        nRedists == nClipeds \div nBins
        p == ClipPass(hist, nClipeds, 0, nBins, clipLevel, nRedists)
    IN  ClipRounds(p.hist, p.n, nBins, clipLevel).hist

\* StretchHist with 256 gray levels above min.
RECURSIVE StretchHist_256(_, _, _, _, _, _)
StretchHist_256(hist, nBins, min, max, nPixels, map) ==
    IF nBins = 0 THEN map
    ELSE LET accum == ULong(SumTo(hist, nBins))
             val == U8(min + ((max + 1 - min) * accum) \div nPixels)
         IN  [StretchHist_256(hist, nBins - 1, min, max, nPixels, map)
                 EXCEPT ![nBins] = Min(val, max)]

\* StretchHist: scale = ((float)max - min) / nPixels; for each bin
\* accum += hist[i]; val = (unsigned char)(min + scale * accum);
\* map[i] = Min(val, max).  The float product is taken as the exact quotient:
\* rounding moves it by less than one unit and keeps the order of the bins.
RECURSIVE StretchHist(_, _, _, _, _, _)
StretchHist(hist, nBins, min, max, nPixels, map) ==
    IF nBins = 0 THEN map
    ELSE LET accum == ULong(SumTo(hist, nBins))
             val == U8(min + ((max - min) * accum) \div nPixels)
         IN  [StretchHist(hist, nBins - 1, min, max, nPixels, map)
                 EXCEPT ![nBins] = Min(val, max)]

\* Frames given to CLAHE: pix[v + 1] pixels of gray level v below nBins, and
\* pix[HistBins + 1] pixels of a level that is not below nBins.
ClaheInitial ==
    /\ FnQuiet
    /\ \E pix \in [1..(HistBins + 1) -> 0..MaxCount] :
          /\ pix[HistBins + 1] <= MaxLost
          /\ SumTo(pix, HistBins + 1) > 0
          /\ fn = [op |-> "clahe", pc |-> "hist", pix |-> pix,
                   nPixels |-> SumTo(pix, HistBins + 1),
                   hist |-> Zeros(HistBins), rearHist |-> Zeros(HistBins),
                   map |-> Zeros(HistBins), stretchMap |-> Zeros(HistBins),
                   nValidBins |-> 0, nValidPixs |-> 0, clipLevel |-> 0,
                   divzero |-> FALSE, mapAt |-> {}, stretchAt |-> {}]

\* CLAHE: CalHist(src, width, height, histogram, nBins).  An increment for a
\* level that is not below nBins falls outside histogram[].
CalHist ==
    /\ fn.op = "clahe"
    /\ fn.pc = "hist"
    /\ fn' = [fn EXCEPT !.hist = [i \in 1..HistBins |-> fn.pix[i]], !.pc = "rearrange"]
    /\ UNCHANGED FnRest

\* CLAHE: RearrangeHist(histogram, nBins, cutThresh, rearHist, &nValidBins,
\* &nValidPixs, map).
RearrangeHistCall ==
    /\ fn.op = "clahe"
    /\ fn.pc = "rearrange"
    /\ LET r == RearrangeHist(fn.hist, cutThresh)
       IN  fn' = [fn EXCEPT !.rearHist = r.rearHist, !.nValidBins = r.nValidBins,
                            !.nValidPixs = r.nValidPixs, !.map = r.map, !.pc = "level"]
    /\ UNCHANGED FnRest

\* CLAHE: clipLevel = (unsigned long)(clipLimit * width * height / nValidBins).
\* The float quotient of these integers truncates to their integer quotient.
\* With nValidBins = 0 the float division is by zero and the conversion of
\* its result is undefined: any unsigned long.
SetClipLevel ==
    /\ fn.op = "clahe"
    /\ fn.pc = "level"
    /\ \E garbage \in {0, 2 ^ ULongBits - 1} :
          fn' = [fn EXCEPT !.clipLevel = IF fn.nValidBins = 0 THEN garbage
                                         ELSE (clipLimit * fn.nPixels) \div fn.nValidBins,
                           !.divzero = (fn.nValidBins = 0),
                           !.pc = "clip"]
    /\ UNCHANGED FnRest

\* CLAHE: ClipHist(rearHist, nValidBins, clipLevel).  With nValidBins = 0 its
\* nClipeds / nBins divides by zero: the process is stopped by the trap, or
\* the division yields some value and the empty loops change nothing.
ClipHistCall ==
    /\ fn.op = "clahe"
    /\ fn.pc = "clip"
    /\ IF fn.nValidBins = 0
       THEN \E trap \in BOOLEAN :
               fn' = [fn EXCEPT !.divzero = TRUE, !.pc = IF trap THEN "fault" ELSE "stretch"]
       ELSE fn' = [fn EXCEPT !.rearHist = ClipHist(fn.rearHist, fn.nValidBins, fn.clipLevel),
                             !.pc = "stretch"]
    /\ UNCHANGED FnRest

\* CLAHE: StretchHist(rearHist, nValidBins, BLACK, WHITE, nPixels, stretchMap).
StretchHistCall ==
    /\ fn.op = "clahe"
    /\ fn.pc = "stretch"
    /\ fn' = [fn EXCEPT !.stretchMap = StretchHist(fn.rearHist, fn.nValidBins, BLACK, WHITE,
                                                   fn.nPixels, fn.stretchMap),
                        !.pc = "apply"]
    /\ UNCHANGED FnRest

\* CLAHE: claheData[i] = stretchMap[map[src[i]]] for every pixel.  mapAt and
\* stretchAt are the indices at which the two tables are read (a level not
\* below nBins reads past map[], and what it finds there is not followed).
ApplyMaps ==
    /\ fn.op = "clahe"
    /\ fn.pc = "apply"
    /\ LET levels == {v \in 0..HistBins : fn.pix[v + 1] > 0}
       IN  fn' = [fn EXCEPT !.mapAt = levels,
                            !.stretchAt = {fn.map[v + 1] : v \in levels \ {HistBins}},
                            !.pc = "done"]
    /\ UNCHANGED FnRest

ClaheNext ==
    \/ CalHist
    \/ RearrangeHistCall
    \/ SetClipLevel
    \/ ClipHistCall
    \/ StretchHistCall
    \/ ApplyMaps

SpecClahe == ClaheInitial /\ [][ClaheNext]_vars

\* Every bin of the frame's histogram is below cutThresh.
AllBelowThresh == \A i \in 1..HistBins : fn.pix[i] < cutThresh

\* C14: when every histogram bin is below cut_thresh, CLAHE goes on as if
\* valid_bins were 1: it divides by zero nowhere, it completes, and every
\* map[] and stretch[] index it uses is inside the table.
C14_NoValidBinsFloored ==
    (fn.op = "clahe" /\ AllBelowThresh)
        => /\ ~fn.divzero
           /\ fn.pc # "fault"
           /\ fn.mapAt \subseteq 0..(HistBins - 1)
           /\ fn.stretchAt \subseteq 0..(HistBins - 1)

\* C15: after RearrangeHist, valid_pixels is the sum of rear_hist over
\* [0, valid_bins) and map[i] never decreases as i grows over all input bins.
C15_RearrangeSumAndOrder ==
    (fn.op = "clahe" /\ fn.pc = "level")
        => /\ fn.nValidPixs = SumTo(fn.rearHist, fn.nValidBins)
           /\ \A i, j \in 1..HistBins : i <= j => fn.map[i] <= fn.map[j]

\* RearrangeHist has returned for a histogram with a dropped bin before, between
\* and after two kept bins.
C15_Witness ==
    /\ fn.op = "clahe"
    /\ fn.pc = "level"
    /\ fn.nValidBins = 2
    /\ fn.hist[1] \in 1..(cutThresh - 1)
    /\ fn.hist[2] >= cutThresh
    /\ fn.hist[3] < cutThresh
    /\ fn.hist[4] >= cutThresh
    /\ SubSeq(fn.map, 1, 4) = <<0, 0, 1, 1>>

C17_StretchBounded ==
    (fn.op = "clahe" /\ fn.pc \in {"apply", "done"})
        => /\ \A i \in 1..fn.nValidBins : fn.stretchMap[i] \in 0..255
           /\ \A i, j \in 1..fn.nValidBins : i <= j => fn.stretchMap[i] <= fn.stretchMap[j]

\* StretchHist has returned for a clipped histogram of three bins that holds
\* every pixel of the frame: the table rises to 255.
C17_Witness ==
    /\ fn.op = "clahe"
    /\ fn.pc = "apply"
    /\ fn.nValidBins = 3
    /\ fn.nValidPixs = fn.nPixels
    /\ fn.stretchMap[1] < fn.stretchMap[2]
    /\ fn.stretchMap[3] = 255

(***************************************************************************)
(* Quadtree decomposition: qtree_decompose (split_blob, add_node,          *)
(* add_child_node, which_child_of_father), gtree_get_leafnode and          *)
(* qtree_reset, as quadtree_decomp_thread calls them on one frame.         *)
(***************************************************************************)
minbw == 12
minbh == 9
mingr == 78

\* Frames are given by a pattern of two gray levels over width x height.
ImageKinds == {"uniform", "vstep", "hstep", "checker", "dot", "enddot"}

\* The two gray levels: a range on each side of mingr, the step of 128, and
\* the full range.
GrayPairs == {<<0, 78>>, <<0, 79>>, <<0, 128>>, <<0, 255>>}

\* Frame sizes around the split limits, with odd and even sides.
SmallSizes == {<<12, 9>>, <<13, 9>>, <<13, 10>>, <<26, 20>>, <<27, 21>>, <<50, 19>>, <<64, 48>>}

\* The base sizes of the program.
BaseSizes == {<<384, 288>>, <<640, 480>>}

\* *(image + y * width + x)
Pixel(img, x, y) ==
    CASE img.kind = "uniform" -> img.lo
      [] img.kind = "vstep" -> IF x < img.width \div 2 THEN img.lo ELSE img.hi
      [] img.kind = "hstep" -> IF y < img.height \div 2 THEN img.lo ELSE img.hi
      [] img.kind = "checker" -> IF (x + y) % 2 = 0 THEN img.lo ELSE img.hi
      [] img.kind = "dot" -> IF x = 0 /\ y = 0 THEN img.hi ELSE img.lo
      [] OTHER -> IF x = img.width - 1 /\ y = img.height - 1 THEN img.hi ELSE img.lo

SetMin(S) == CHOOSE m \in S : \A v \in S : m <= v
SetMax(S) == CHOOSE m \in S : \A v \in S : m >= v

\* split_blob: minval starts at 0xFF, maxval at 0, both run over the pixels of
\* the quadrant; range = maxval - minval.
GrayRange(img, quad) ==
    LET vals == {Pixel(img, x, y) : x \in quad.left..(quad.right - 1),
                                    y \in quad.top..(quad.bottom - 1)}
    IN  SetMax(vals \cup {0}) - SetMin(vals \cup {255})

Quadrant(top, left, bottom, right) ==
    [top |-> top, left |-> left, bottom |-> bottom, right |-> right]

\* A pointer to a node: <<>> is NULL, <<node>> points to node.
NULL == <<>>

\* which_child_of_father with the top right test taking child->quad.left
\* strictly right of the vertical middle.
which_child_of_father_strict(father, child) ==
    LET horizon_middle == (father.quad.top + father.quad.bottom) \div 2
        vertical_middle == (father.quad.left + father.quad.right) \div 2
    IN  IF /\ child.quad.left >= father.quad.left
           /\ child.quad.right <= vertical_middle
           /\ child.quad.top >= father.quad.top
           /\ child.quad.bottom <= horizon_middle THEN 1
        ELSE IF /\ child.quad.left > vertical_middle
                /\ child.quad.right <= father.quad.right
                /\ child.quad.top >= father.quad.top
                /\ child.quad.bottom <= horizon_middle THEN 2
        ELSE IF /\ child.quad.left >= father.quad.left
                /\ child.quad.right <= vertical_middle
                /\ child.quad.top >= horizon_middle
                /\ child.quad.bottom <= father.quad.bottom THEN 3
        ELSE IF /\ child.quad.left >= vertical_middle
                /\ child.quad.right <= father.quad.right
                /\ child.quad.top >= horizon_middle
                /\ child.quad.bottom <= father.quad.bottom THEN 4
        ELSE 0 - 1

\* which_child_of_father: TLC = 1, TRC = 2, LLC = 3, LRC = 4, or -1.
which_child_of_father(father, child) ==
    LET horizon_middle == (father.quad.top + father.quad.bottom) \div 2
        vertical_middle == (father.quad.left + father.quad.right) \div 2
    IN  IF /\ child.quad.left >= father.quad.left
           /\ child.quad.right <= vertical_middle
           /\ child.quad.top >= father.quad.top
           /\ child.quad.bottom <= horizon_middle THEN 1
        ELSE IF /\ child.quad.left >= vertical_middle
                /\ child.quad.right <= father.quad.right
                /\ child.quad.top >= father.quad.top
                /\ child.quad.bottom <= horizon_middle THEN 2
        ELSE IF /\ child.quad.left >= father.quad.left
                /\ child.quad.right <= vertical_middle
                /\ child.quad.top >= horizon_middle
                /\ child.quad.bottom <= father.quad.bottom THEN 3
        ELSE IF /\ child.quad.left >= vertical_middle
                /\ child.quad.right <= father.quad.right
                /\ child.quad.top >= horizon_middle
                /\ child.quad.bottom <= father.quad.bottom THEN 4
        ELSE 0 - 1

\* add_child_node(root, node): the father with the node linked below it, and
\* whether it was linked at all (child_id = -1 returns without linking).
RECURSIVE add_child_node(_, _)
add_child_node(root, node) ==
    LET child_id == which_child_of_father(root.blob, node.blob)
    IN  IF child_id = 0 - 1 THEN [node |-> root, linked |-> FALSE]
        ELSE IF root.next[child_id] = NULL
             THEN [node |-> [root EXCEPT !.next[child_id] = <<node>>], linked |-> TRUE]
             ELSE LET r == add_child_node(root.next[child_id][1], node)
                  IN  [node |-> [root EXCEPT !.next[child_id] = <<r.node>>],
                       linked |-> r.linked]

\* add_node(self, blob): a new node with four NULL children becomes the root
\* of an empty tree or is handed to add_child_node; self->depth++.  lost
\* counts the nodes that were allocated and linked nowhere.
add_node(self, blob) ==
    LET child == [blob |-> blob, next |-> <<NULL, NULL, NULL, NULL>>]
    IN  IF self.root = NULL
        THEN [self EXCEPT !.root = <<child>>, !.depth = @ + 1]
        ELSE LET r == add_child_node(self.root[1], child)
             IN  [self EXCEPT !.root = <<r.node>>, !.depth = @ + 1,
                              !.lost = IF r.linked THEN @ ELSE @ + 1]

\* split_blob that splits on range >= mingr.
RECURSIVE split_blob_ge(_, _, _)
split_blob_ge(self, quad, img) ==
    LET bw == quad.right - quad.left
        bh == quad.bottom - quad.top
        range == GrayRange(img, quad)
        added == add_node(self, [quad |-> quad, range |-> range])
        horizon_middle == (quad.top + quad.bottom) \div 2
        vertical_middle == (quad.left + quad.right) \div 2
    IN  IF bw > self.minbw /\ bh > self.minbh /\ range >= self.mingr
        THEN split_blob_ge(
               split_blob_ge(
                 split_blob_ge(
                   split_blob_ge(added,
                     Quadrant(quad.top, quad.left, horizon_middle, vertical_middle), img),
                   Quadrant(quad.top, vertical_middle, horizon_middle, quad.right), img),
                 Quadrant(horizon_middle, quad.left, quad.bottom, vertical_middle), img),
               Quadrant(horizon_middle, vertical_middle, quad.bottom, quad.right), img)
        ELSE added

\* split_blob(self, root, quad, image, width, height): the gray range of the
\* quadrant, add_node, and, if the blob can be split, the four recursive
\* calls in the order top left, top right, lower left, lower right.
RECURSIVE split_blob(_, _, _)
split_blob(self, quad, img) ==
    LET bw == quad.right - quad.left
        bh == quad.bottom - quad.top
        range == GrayRange(img, quad)
        added == add_node(self, [quad |-> quad, range |-> range])
        horizon_middle == (quad.top + quad.bottom) \div 2
        vertical_middle == (quad.left + quad.right) \div 2
    IN  IF bw > self.minbw /\ bh > self.minbh /\ range > self.mingr
        THEN split_blob(
               split_blob(
                 split_blob(
                   split_blob(added,
                     Quadrant(quad.top, quad.left, horizon_middle, vertical_middle), img),
                   Quadrant(quad.top, vertical_middle, horizon_middle, quad.right), img),
                 Quadrant(horizon_middle, quad.left, quad.bottom, vertical_middle), img),
               Quadrant(horizon_middle, vertical_middle, quad.bottom, quad.right), img)
        ELSE added

\* get_leafnode(root, blobs, nblobs): a node without children is copied to
\* blobs[*nblobs]; then the children that exist are visited in order.
RECURSIVE get_leafnode(_)
get_leafnode(root) ==
    IF root = NULL THEN <<>>
    ELSE LET node == root[1]
         IN  (IF \A k \in 1..4 : node.next[k] = NULL THEN <<node.blob>> ELSE <<>>)
             \o get_leafnode(node.next[1]) \o get_leafnode(node.next[2])
             \o get_leafnode(node.next[3]) \o get_leafnode(node.next[4])

\* qtree_new, qtree_init; lost is the count of add_node.
EmptyTree ==
    [root |-> NULL, depth |-> 0, minbw |-> minbw, minbh |-> minbh, mingr |-> mingr,
     lost |-> 0]

\* bkgreconst_init: mnbpi = width * height / minbw / minbh.
mnbpi(width, height) == ((width * height) \div minbw) \div minbh

QtreeFrames(sizes) ==
    {[kind |-> k, lo |-> g[1], hi |-> g[2], width |-> sz[1], height |-> sz[2]] :
        k \in ImageKinds, g \in GrayPairs, sz \in sizes}

QtreeStart(img) ==
    fn = [op |-> "qtree", pc |-> "decompose", img |-> img, qtree |-> EmptyTree,
          iblob |-> <<>>, nblobs |-> 0]

QtreeInitial ==
    /\ FnQuiet
    /\ \E img \in QtreeFrames(SmallSizes) : QtreeStart(img)

QtreeBaseInitial ==
    /\ FnQuiet
    /\ \E img \in QtreeFrames(BaseSizes) : QtreeStart(img)

\* quadtree_decomp_thread: qtree_decompose(qtree, o_infd_image, width, height)
\* calls split_blob on the quadrant (0, 0, height, width).
qtree_decompose ==
    /\ fn.op = "qtree"
    /\ fn.pc = "decompose"
    /\ fn' = [fn EXCEPT !.qtree = split_blob(fn.qtree,
                                             Quadrant(0, 0, fn.img.height, fn.img.width),
                                             fn.img),
                        !.pc = "leaves"]
    /\ UNCHANGED FnRest

\* quadtree_decomp_thread: memset of iblob, nblobs = gtree_get_leafnode(qtree,
\* iblob).
gtree_get_leafnode ==
    /\ fn.op = "qtree"
    /\ fn.pc = "leaves"
    /\ LET blobs == get_leafnode(fn.qtree.root)
       IN  fn' = [fn EXCEPT !.iblob = blobs, !.nblobs = Len(blobs), !.pc = "reset"]
    /\ UNCHANGED FnRest

\* quadtree_decomp_thread: qtree_reset(qtree) frees the nodes that are linked
\* and sets root = NULL, depth = 0.
qtree_reset ==
    /\ fn.op = "qtree"
    /\ fn.pc = "reset"
    /\ fn' = [fn EXCEPT !.qtree = [@ EXCEPT !.root = NULL, !.depth = 0], !.pc = "done"]
    /\ UNCHANGED FnRest

QtreeNext ==
    \/ qtree_decompose
    \/ gtree_get_leafnode
    \/ qtree_reset

SpecQtree == QtreeInitial /\ [][QtreeNext]_vars

SpecQtreeBase == QtreeBaseInitial /\ [][QtreeNext]_vars

\* The nodes linked in the tree below a pointer.
RECURSIVE TreeNodes(_)
TreeNodes(root) ==
    IF root = NULL THEN {}
    ELSE {root[1]} \cup TreeNodes(root[1].next[1]) \cup TreeNodes(root[1].next[2])
                   \cup TreeNodes(root[1].next[3]) \cup TreeNodes(root[1].next[4])

RECURSIVE CountNodes(_)
CountNodes(root) ==
    IF root = NULL THEN 0
    ELSE 1 + CountNodes(root[1].next[1]) + CountNodes(root[1].next[2])
           + CountNodes(root[1].next[3]) + CountNodes(root[1].next[4])

QuadInside(q, p) ==
    /\ p.top <= q.top /\ q.top < q.bottom /\ q.bottom <= p.bottom
    /\ p.left <= q.left /\ q.left < q.right /\ q.right <= p.right

QuadsDisjoint(a, b) ==
    \/ a.right <= b.left \/ b.right <= a.left
    \/ a.bottom <= b.top \/ b.bottom <= a.top

QuadArea(q) == (q.right - q.left) * (q.bottom - q.top)

RECURSIVE AreaTo(_, _)
AreaTo(blobs, n) == IF n = 0 THEN 0 ELSE AreaTo(blobs, n - 1) + QuadArea(blobs[n].quad)

\* C18: the leaf blobs gtree_get_leafnode returns after qtree_decompose tile
\* the W x H frame: they are pairwise disjoint, every node lies inside its
\* parent, and together the leaves cover the frame; no node that split_blob
\* created is lost on insertion.
C18_LeavesTile ==
    (fn.op = "qtree" /\ fn.pc = "reset")
        => LET frame == Quadrant(0, 0, fn.img.height, fn.img.width)
           IN  /\ fn.qtree.lost = 0
               /\ CountNodes(fn.qtree.root) = fn.qtree.depth
               /\ \A i, j \in 1..fn.nblobs :
                     i # j => QuadsDisjoint(fn.iblob[i].quad, fn.iblob[j].quad)
               /\ \A n \in TreeNodes(fn.qtree.root) :
                     \A k \in 1..4 :
                        n.next[k] # NULL => QuadInside(n.next[k][1].blob.quad, n.blob.quad)
               /\ \A i \in 1..fn.nblobs : QuadInside(fn.iblob[i].quad, frame)
               /\ AreaTo(fn.iblob, fn.nblobs) = QuadArea(frame)

\* A frame with odd sides has been split twice everywhere.
C18_Witness ==
    /\ fn.op = "qtree"
    /\ fn.pc = "reset"
    /\ fn.img.width = 27
    /\ fn.img.height = 21
    /\ fn.qtree.depth = 21
    /\ fn.nblobs = 16

\* The four quadrants split_blob makes of a blob.
SplitQuads(quad) ==
    LET horizon_middle == (quad.top + quad.bottom) \div 2
        vertical_middle == (quad.left + quad.right) \div 2
    IN  <<Quadrant(quad.top, quad.left, horizon_middle, vertical_middle),
          Quadrant(quad.top, vertical_middle, horizon_middle, quad.right),
          Quadrant(horizon_middle, quad.left, quad.bottom, vertical_middle),
          Quadrant(horizon_middle, vertical_middle, quad.bottom, quad.right)>>

\* C19: a quadrant is split into top left, top right, bottom left and bottom
\* right at ((top + bottom) / 2, (left + right) / 2) exactly when its width is
\* above min_blob_w, its height above min_blob_h and its gray range above
\* min_gray_range; a uniform image gives one leaf, and a 64 x 48 image with a
\* step of 128 along the vertical midline gives four.
C19_SplitRule ==
    (fn.op = "qtree" /\ fn.pc = "reset")
        => /\ \A n \in TreeNodes(fn.qtree.root) :
                 LET q == n.blob.quad
                     split == /\ q.right - q.left > minbw
                              /\ q.bottom - q.top > minbh
                              /\ GrayRange(fn.img, q) > mingr
                 IN  IF split
                     THEN \A k \in 1..4 : /\ n.next[k] # NULL
                                          /\ n.next[k][1].blob.quad = SplitQuads(q)[k]
                     ELSE \A k \in 1..4 : n.next[k] = NULL
           /\ fn.img.kind = "uniform" => fn.nblobs = 1
           /\ (fn.img.kind = "vstep" /\ fn.img.width = 64 /\ fn.img.height = 48
                 /\ fn.img.hi - fn.img.lo = 128) => fn.nblobs = 4

\* The 64 x 48 frame with the step of 128 has been decomposed into the four
\* quadrants of the frame.
C19_Witness ==
    /\ fn.op = "qtree"
    /\ fn.pc = "reset"
    /\ fn.img.kind = "vstep"
    /\ fn.img.width = 64
    /\ fn.img.height = 48
    /\ fn.img.hi - fn.img.lo = 128
    /\ fn.qtree.depth = 5
    /\ fn.iblob[4].quad = Quadrant(24, 32, 48, 64)

\* C20: for the base sizes 384 x 288 and 640 x 480 and every content, the
\* number of leaves is at most W * H / (min_blob_w * min_blob_h), the number
\* of blobs the caller's array is sized for.
C20_LeavesFitBlobArray ==
    (fn.op = "qtree" /\ fn.pc \in {"reset", "done"})
        => fn.nblobs <= mnbpi(fn.img.width, fn.img.height)

(***************************************************************************)
(* Image filters of the background path: gauss_filter (gauss_filter_nsu)   *)
(* and min_filter.  A single-channel image is a sequence of width * height *)
(* bytes, pixel (x, y) at index y * width + x + 1.                         *)
(***************************************************************************)
ksize == 5

\* bkgreconst_init: mf_size.
mf_size == 11

\* The pixels of a frame pattern, row by row.
Raster(img) ==
    [i \in 1..(img.width * img.height) |->
        Pixel(img, (i - 1) % img.width, (i - 1) \div img.width)]

\* image[y * width + x]
ImgAt(image, width, x, y) == image[y * width + x + 1]

Clamp(v, lo, hi) == IF v < lo THEN lo ELSE IF v > hi THEN hi ELSE v

\* expf(-(dx * dx + dy * dy) / 2 / sigma / sigma) for sigma = gf_sigma = 4.5,
\* to four decimal places and times 10000, by dx * dx + dy * dy.  The factor
\* 1 / (sqrtf(2 * pi) * sigma) cancels in the normalisation.
GaussWeight(d2) ==
    CASE d2 = 0 -> 10000
      [] d2 = 1 -> 9756
      [] d2 = 2 -> 9518
      [] d2 = 4 -> 9060
      [] d2 = 5 -> 8839
      [] OTHER -> 8208

\* kernel[i] before the division by sum: i = y * ksize + x, dx = x - krad,
\* dy = y - krad.
kernel(i, ks) ==
    LET krad == ks \div 2
        dx == (i % ks) - krad
        dy == (i \div ks) - krad
    IN  GaussWeight(dx * dx + dy * dy)

\* sum of the kernel values, by which every kernel[i] is divided.
RECURSIVE kernel_sum(_, _)
kernel_sum(n, ks) == IF n = 0 THEN 0 ELSE kernel(n - 1, ks) + kernel_sum(n - 1, ks)

\* The window sum with tap n = (ky - (y - krad)) * ksize + (kx - (x - krad))
\* weighted by kernel[n] (the numerator over kernel_sum).
RECURSIVE window_sum_tap(_, _, _, _, _, _)
window_sum_tap(image, width, x, y, ks, n) ==
    IF n = 0 THEN 0
    ELSE LET krad == ks \div 2
             kx == x - krad + ((n - 1) % ks)
             ky == y - krad + ((n - 1) \div ks)
         IN  ImgAt(image, width, kx, ky) * kernel(n - 1, ks)
               + window_sum_tap(image, width, x, y, ks, n - 1)

\* gauss_filter_nsu, the inner loops: i = 0; sum = 0; for ky, for kx:
\* sum += image[ky * width + kx] * kernel[i].  i stays 0 over the window.
RECURSIVE window_sum(_, _, _, _, _, _)
window_sum(image, width, x, y, ks, n) ==
    IF n = 0 THEN 0
    ELSE LET krad == ks \div 2
             kx == x - krad + ((n - 1) % ks)
             ky == y - krad + ((n - 1) \div ks)
             i == 0
         IN  ImgAt(image, width, kx, ky) * kernel(i, ks)
               + window_sum(image, width, x, y, ks, n - 1)

\* gauss_filter_nsu: the interior pixels are (unsigned int)(sum); the rows
\* above krad and below height - krad - 1 copy the nearest interior row, then
\* the columns left of krad and right of width - krad - 1 copy the nearest
\* interior column.
gauss_filter_nsu(image, width, height, ks) ==
    LET krad == ks \div 2
        total == kernel_sum(ks * ks, ks)
    IN  [p \in 1..(width * height) |->
            LET x == Clamp((p - 1) % width, krad, width - krad - 1)
                y == Clamp((p - 1) \div width, krad, height - krad - 1)
            IN  U8(window_sum(image, width, x, y, ks, ks * ks) \div total)]

\* gauss_filter: the recursive filter is compiled out; ksize = 5 and
\* gauss_filter_nsu.
gauss_filter(image, width, height) == gauss_filter_nsu(image, width, height, ksize)

\* min_filter: the minimum over the (2 * krad + 1)^2 window starting from
\* 0xFF, with the same border copies.
min_filter(image, width, height, ks) ==
    LET krad == ks \div 2
    IN  [p \in 1..(width * height) |->
            LET x == Clamp((p - 1) % width, krad, width - krad - 1)
                y == Clamp((p - 1) \div width, krad, height - krad - 1)
            IN  SetMin({255} \cup {ImgAt(image, width, kx, ky) :
                                     kx \in (x - krad)..(x + krad),
                                     ky \in (y - krad)..(y + krad)})]

\* Frames for the Gaussian filter: the patterns over sizes with interiors of
\* one to six pixels.
GaussPairs == {<<0, 255>>, <<100, 100>>, <<255, 255>>, <<40, 200>>}
GaussSizes == {<<5, 5>>, <<6, 6>>, <<7, 6>>}

GaussInitial ==
    /\ FnQuiet
    /\ \E k \in ImageKinds, g \in GaussPairs, sz \in GaussSizes :
          fn = [op |-> "gauss", pc |-> "filter",
                img |-> [kind |-> k, lo |-> g[1], hi |-> g[2],
                         width |-> sz[1], height |-> sz[2]],
                gf_image |-> <<>>]

\* bkgreconst_thread: gauss_filter(bkgr_image, width, height, gf_sigma,
\* i_gfbr_image).
GaussFilterCall ==
    /\ fn.op = "gauss"
    /\ fn.pc = "filter"
    /\ fn' = [fn EXCEPT !.gf_image = gauss_filter(Raster(fn.img), fn.img.width,
                                                  fn.img.height),
                        !.pc = "done"]
    /\ UNCHANGED FnRest

GaussNext == GaussFilterCall

SpecGauss == GaussInitial /\ [][GaussNext]_vars

\* The 2-D convolution of the window around (x, y) with tap (dy, dx) weighted
\* by K[dy, dx], the kernel normalised to sum 1, truncated.
Convolve(image, width, x, y) ==
    window_sum_tap(image, width, x, y, ksize, ksize * ksize)
        \div kernel_sum(ksize * ksize, ksize)

Interior(width, height) ==
    {<<x, y>> \in (0..(width - 1)) \X (0..(height - 1)) :
        /\ x >= ksize \div 2 /\ x < width - ksize \div 2
        /\ y >= ksize \div 2 /\ y < height - ksize \div 2}

\* C25: every interior output pixel of gauss_filter is the 2-D convolution of
\* its 5 x 5 window with each tap weighted by its own kernel entry (to within
\* one gray level of rounding), and a constant image is mapped to the same
\* constant up to truncation.
C25_GaussIsConvolution ==
    (fn.op = "gauss" /\ fn.pc = "done") =>
        LET image == Raster(fn.img)
            w == fn.img.width
            h == fn.img.height
        IN  /\ \A c \in Interior(w, h) :
                  LET d == ImgAt(fn.gf_image, w, c[1], c[2])
                             - Convolve(image, w, c[1], c[2])
                  IN  d >= 0 - 1 /\ d <= 1
            /\ (fn.img.lo = fn.img.hi) =>
                  \A p \in 1..(w * h) :
                      fn.gf_image[p] \in {fn.img.lo, fn.img.lo - 1}

(***************************************************************************)
(* One frame pair through the background path and fusion_thread:           *)
(* min_filter, the quadtree leaves, bezier_interpolate, gauss_filter,      *)
(* the bright feature arithmetic, suppress_bright_feature and the chroma   *)
(* of the fused record.                                                    *)
(***************************************************************************)
\* fusion_init: ngls = 0xFFFF + 1, the bins of hist.
ngls == 65536

\* bpr = 0.001f as 1 / bprDen; ssr = 0.8f as ssrNum / ssrDen.
bprDen == 1000
ssrNum == 4
ssrDen == 5

GRAY_STYLE == 0
COLOR_STYLE == 1

\* img_subtract_kr: C[i] = A[i] > B[i] ? A[i] - B[i] : 0.
img_subtract_kr(A, B) == [i \in DOMAIN A |-> IF A[i] > B[i] THEN A[i] - B[i] ELSE 0]

\* img_add: the 16-bit sum of two byte images.
img_add(A, B) == [i \in DOMAIN A |-> U16(A[i] + B[i])]

\* img_add_kr: the sum of two byte images saturated at 255.
img_add_kr(A, B) == [i \in DOMAIN A |-> Min(A[i] + B[i], 255)]

\* img_mul_s_kr_nsu: B[i] = (unsigned char)(k * A[i]), k = num / den.
img_mul_s_kr(A, num, den) == [i \in DOMAIN A |-> U8((num * A[i]) \div den)]

\* The Bernstein weights of row i of U * M (U the rows 1, t, t^2, t^3 with
\* t = i / (dim - 1.0f)), times n^3 for n = dim - 1.
Bern(a, i, n) ==
    CASE a = 0 -> (n - i) * (n - i) * (n - i)
      [] a = 1 -> 3 * i * (n - i) * (n - i)
      [] a = 2 -> 3 * i * i * (n - i)
      [] OTHER -> i * i * i

\* bezier_cpoint_feature: feat[y * 4 + x] is the pixel at row
\* top + (unsigned int)(y * bh / 4.0f), column left + (unsigned int)(x * bw / 4.0f).
bezier_cpoint_feature(image, width, quad, y, x) ==
    ImgAt(image, width,
          quad.left + (x * (quad.right - quad.left)) \div 4,
          quad.top + (y * (quad.bottom - quad.top)) \div 4)

\* U * M * P * MT * VT at row i, column j of the blob, times (n * m)^3.
RECURSIVE bezier_surf_sum(_, _, _, _, _, _)
bezier_surf_sum(image, width, quad, i, j, t) ==
    IF t = 0 THEN 0
    ELSE LET a == (t - 1) \div 4
             b == (t - 1) % 4
             n == quad.bottom - quad.top - 1
             m == quad.right - quad.left - 1
         IN  Bern(a, i, n) * bezier_cpoint_feature(image, width, quad, a, b) * Bern(b, j, m)
               + bezier_surf_sum(image, width, quad, i, j, t - 1)

\* bezier_set_surf: (unsigned char) of the float surface value.  The float
\* products round; a value that is a whole number in exact arithmetic comes
\* out as that number or just below it, which slack (0 or 1 unit of the
\* numerator) stands for.
bezier_set_surf(image, width, quad, x, y, slack) ==
    LET n == quad.bottom - quad.top - 1
        m == quad.right - quad.left - 1
        den == n * n * n * m * m * m
        num == bezier_surf_sum(image, width, quad, y - quad.top, x - quad.left, 16)
    IN  U8(Max(num - slack, 0) \div den)

\* bezier_interpolate: the blobs in order until the first with right <= 0 or
\* bottom <= 0, each surface written over its quadrant of bkgr_image.
bezier_interpolate(image, width, height, blob, nblobs, slack, bkgr_image) ==
    LET used == {k \in 1..Min(nblobs, Len(blob)) :
                    \A q \in 1..k : blob[q].quad.right > 0 /\ blob[q].quad.bottom > 0}
    IN  [p \in 1..(width * height) |->
            LET x == (p - 1) % width
                y == (p - 1) \div width
                over == {k \in used : /\ blob[k].quad.left <= x /\ x < blob[k].quad.right
                                      /\ blob[k].quad.top <= y /\ y < blob[k].quad.bottom}
            IN  IF over = {} THEN bkgr_image[p]
                ELSE bezier_set_surf(image, width, blob[SetMax(over)].quad, x, y, slack)]

\* hist[v] after the counting loop hist[usfn_image[i]]++ over the zeroed
\* array.
hist(usfn_image, v) == Cardinality({i \in DOMAIN usfn_image : usfn_image[i] = v})

\* i-- on the unsigned int i: below 0 it is 0xFFFFFFFF, written -1 here; the
\* test i >= 0 is true of it.
UIntDec(i) == IF i = 0 THEN 0 - 1 ELSE i - 1

\* suppress_bright_feature, the scan for (i = ngls - 1; i >= 0; i--): bins
\* with no pixel are passed by continue, so the scan moves from i to the next
\* bin at or below i that has one, and past bin 0 if there is none; bpc and
\* sum accumulate, the scan breaks once bpc > bpct.  oob tells that hist was
\* read or written outside [0, ngls - 1].
RECURSIVE brightest_scan(_, _, _, _, _, _)
brightest_scan(usfn_image, n, i, bpc, sum, bpct) ==
    IF i < 0 \/ i >= n
    THEN [oob |-> TRUE, i |-> i, bpc |-> bpc, sum |-> sum]
    ELSE LET full == {usfn_image[k] : k \in DOMAIN usfn_image} \cap (0..i)
         IN  IF full = {}
             THEN brightest_scan(usfn_image, n, UIntDec(0), bpc, sum, bpct)
             ELSE LET j == SetMax(full)
                      cnt == hist(usfn_image, j)
                  IN  IF bpc + cnt > bpct
                      THEN [oob |-> FALSE, i |-> j, bpc |-> bpc + cnt,
                            sum |-> sum + cnt * j]
                      ELSE brightest_scan(usfn_image, n, UIntDec(j), bpc + cnt,
                                          sum + cnt * j, bpct)

\* suppress_bright_feature with bpct = npixels (bpr = 1).
suppress_bright_feature_bpr1(rfbf_image, npixels, usfn_image, n) ==
    LET bpct == npixels
        stray == \E k \in DOMAIN usfn_image : usfn_image[k] >= n
        scan == IF stray THEN [oob |-> TRUE, i |-> n - 1, bpc |-> 0, sum |-> 0]
                ELSE brightest_scan(usfn_image, n, n - 1, 0, 0, bpct)
        clipped == scan.sum = 0 \/ 255 * scan.bpc * ssrDen > ssrNum * scan.sum
    IN  [scan |-> scan,
         sbrf_image |-> IF scan.oob THEN <<>>
                        ELSE IF clipped THEN img_mul_s_kr(rfbf_image, ssrNum, ssrDen)
                        ELSE img_mul_s_kr(rfbf_image, 255 * scan.bpc, scan.sum)]

\* suppress_bright_feature: bpct = (unsigned int)(bpr * npixels), the scan,
\* mean = sum / bpc, sr = 255 / mean clipped to ssr (mean = 0 gives +inf, so
\* ssr), img_mul_s_kr(rfbf_image, sr).
suppress_bright_feature(rfbf_image, npixels, usfn_image, n) ==
    LET bpct == npixels \div bprDen
        stray == \E k \in DOMAIN usfn_image : usfn_image[k] >= n
        scan == IF stray THEN [oob |-> TRUE, i |-> n - 1, bpc |-> 0, sum |-> 0]
                ELSE brightest_scan(usfn_image, n, n - 1, 0, 0, bpct)
        clipped == scan.sum = 0 \/ 255 * scan.bpc * ssrDen > ssrNum * scan.sum
    IN  [scan |-> scan,
         sbrf_image |-> IF scan.oob THEN <<>>
                        ELSE IF clipped THEN img_mul_s_kr(rfbf_image, ssrNum, ssrDen)
                        ELSE img_mul_s_kr(rfbf_image, 255 * scan.bpc, scan.sum)]

\* The U and V bytes of a YUV420 frame: width * height >> 1 bytes after the
\* Y plane, here a ramp from a seed.
Chroma(seed, width, height) ==
    [i \in 1..((width * height) \div 2) |-> (seed + 37 * i) % 256]

\* The Y plane of a YUV420 record: its first width * height bytes.
PlaneY(image, width, height) == SubSeq(image, 1, width * height)

\* The chroma step with the memmove reading from o_regt_image itself.
fusn_chroma_fromY(cstyle, o_regt_image, width, height) ==
    IF cstyle = COLOR_STYLE
    THEN SubSeq(o_regt_image, 1, (width * height) \div 2)
    ELSE [i \in 1..((width * height) \div 2) |-> 128]

\* fusion_thread, lines 817-823, the bytes written at i_fusn_image +
\* width * height: memmove from o_regt_image + width * height of
\* width * height >> 1 bytes in colour style, memset to 0x80 otherwise.
fusn_chroma(cstyle, o_regt_image, width, height) ==
    IF cstyle = COLOR_STYLE
    THEN SubSeq(o_regt_image, width * height + 1,
                width * height + (width * height) \div 2)
    ELSE [i \in 1..((width * height) \div 2) |-> 128]

\* IR frames: uniform ones of one blob and the steps that split once (the
\* surface numerators of their blobs fit 31 bits); registered visible frames:
\* the Y plane and a seed for the chroma bytes.
FuseIrFrames ==
    {[kind |-> "uniform", lo |-> g, hi |-> g, width |-> sz[1], height |-> sz[2]] :
        g \in {0, 100, 255}, sz \in {<<12, 12>>, <<16, 12>>}}
    \cup {[kind |-> k, lo |-> 20, hi |-> 220, width |-> 26, height |-> 20] :
            k \in {"vstep", "hstep"}}

FuseVisFrames ==
    {[kind |-> k, lo |-> g[1], hi |-> g[2], seed |-> s] :
        k \in {"uniform"}, g \in {<<50, 50>>, <<0, 0>>, <<255, 255>>}, s \in {3, 200}}
    \cup {[kind |-> "hstep", lo |-> 10, hi |-> 240, seed |-> 3]}

\* The registered visible frame of the state as fusion_thread dequeues it:
\* the Y plane, then the chroma bytes.
VisFrame ==
    Raster([kind |-> fn.vis.kind, lo |-> fn.vis.lo, hi |-> fn.vis.hi,
            width |-> fn.y8.width, height |-> fn.y8.height])
        \o Chroma(fn.vis.seed, fn.y8.width, fn.y8.height)

VisY == PlaneY(VisFrame, fn.y8.width, fn.y8.height)

FuseInitial ==
    /\ FnQuiet
    /\ \E ir \in FuseIrFrames, vis \in FuseVisFrames, cs \in {GRAY_STYLE, COLOR_STYLE} :
          fn = [op |-> "fuse", pc |-> "put", y8 |-> ir, vis |-> vis, cstyle |-> cs,
                minf_image |-> <<>>, oblob |-> <<>>, nblobs |-> 0 - 1,
                bkgr_image |-> <<>>, brft_image |-> <<>>, rfbf_image |-> <<>>,
                sbrf_image |-> <<>>, i_fusn_image |-> <<>>]

\* minimum_filter_thread: min_filter(infm_image, width, height, mf_size,
\* i_minf_image).
FuseMinFilter ==
    /\ fn.op = "fuse"
    /\ fn.pc = "put"
    /\ fn.minf_image = <<>>
    /\ fn' = [fn EXCEPT !.minf_image = min_filter(Raster(fn.y8), fn.y8.width,
                                                  fn.y8.height, mf_size)]
    /\ UNCHANGED FnRest

\* quadtree_decomp_thread: qtree_decompose, gtree_get_leafnode, qtree_reset.
FuseQuadtree ==
    /\ fn.op = "fuse"
    /\ fn.pc = "put"
    /\ fn.nblobs < 0
    /\ LET blobs == get_leafnode(split_blob(EmptyTree,
                                            Quadrant(0, 0, fn.y8.height, fn.y8.width),
                                            fn.y8).root)
       IN  fn' = [fn EXCEPT !.oblob = blobs, !.nblobs = Len(blobs)]
    /\ UNCHANGED FnRest

\* bkgreconst_thread: bezier_interpolate(o_minf_image, ..., oblob, mnbpi, ...,
\* bkgr_image), gauss_filter(bkgr_image, ..., i_gfbr_image); fusion_thread
\* takes i_gfbr_image as its bkgr_image through bkgreconst_get.
FuseBkgReconst ==
    /\ fn.op = "fuse"
    /\ fn.pc = "put"
    /\ fn.minf_image # <<>>
    /\ fn.nblobs >= 0
    /\ \E slack \in {0, 1} :
       \E surf \in {bezier_interpolate(fn.minf_image, fn.y8.width, fn.y8.height, fn.oblob,
                                        mnbpi(fn.y8.width, fn.y8.height), slack,
                                        [p \in 1..(fn.y8.width * fn.y8.height) |-> 0])} :
          fn' = [fn EXCEPT !.bkgr_image = gauss_filter(surf, fn.y8.width, fn.y8.height),
                           !.pc = "fusion"]
    /\ UNCHANGED FnRest

\* fusion_thread, one iteration with the three inputs dequeued.  Each image
\* is bound as a value before the next one is computed from it.
FuseFusion ==
    /\ fn.op = "fuse"
    /\ fn.pc = "fusion"
    /\ \E o_gsci_image \in {Raster(fn.y8)}, o_regt_image \in {VisFrame} :
       \E brft_image \in {img_subtract_kr(o_gsci_image, fn.bkgr_image)},
          etbk_image \in {img_subtract_kr(PlaneY(o_regt_image, fn.y8.width, fn.y8.height),
                                          o_gsci_image)} :
       \E rfbf_image \in {img_subtract_kr(brft_image, etbk_image)} :
       \E usfn_image \in {img_add(PlaneY(o_regt_image, fn.y8.width, fn.y8.height),
                                   rfbf_image)} :
       \E sup \in {suppress_bright_feature(rfbf_image, fn.y8.width * fn.y8.height,
                                           usfn_image, ngls)} :
          fn' = [fn EXCEPT !.brft_image = brft_image,
                           !.rfbf_image = rfbf_image,
                           !.sbrf_image = sup.sbrf_image,
                           !.i_fusn_image =
                               img_add_kr(PlaneY(o_regt_image, fn.y8.width, fn.y8.height),
                                          sup.sbrf_image)
                                 \o fusn_chroma(fn.cstyle, o_regt_image, fn.y8.width,
                                                fn.y8.height),
                           !.pc = "done"]
    /\ UNCHANGED FnRest

FuseNext ==
    \/ FuseMinFilter
    \/ FuseQuadtree
    \/ FuseBkgReconst
    \/ FuseFusion

SpecFuse == FuseInitial /\ [][FuseNext]_vars

\* C21: for a uniform IR frame the reconstructed background equals the IR y8
\* frame, the bright feature is zero everywhere and the fused Y plane equals
\* the Y plane of the registered visible frame.
C21_UniformFrameFusesToVisible ==
    (fn.op = "fuse" /\ fn.y8.kind = "uniform") =>
        /\ fn.pc \in {"fusion", "done"} => fn.bkgr_image = Raster(fn.y8)
        /\ fn.pc = "done" =>
              /\ \A p \in DOMAIN fn.brft_image : fn.brft_image[p] = 0
              /\ PlaneY(fn.i_fusn_image, fn.y8.width, fn.y8.height) = VisY

\* C22: in the fused record the chroma follows the colour style: in colour
\* style the U and V bytes are those of the registered visible frame used for
\* the record, in gray style every U and V byte is 0x80.
C22_ChromaFollowsStyle ==
    (fn.op = "fuse" /\ fn.pc = "done") =>
        \A p \in (fn.y8.width * fn.y8.height + 1)..
                   (fn.y8.width * fn.y8.height + (fn.y8.width * fn.y8.height) \div 2) :
            /\ p \in DOMAIN fn.i_fusn_image
            /\ fn.i_fusn_image[p] = IF fn.cstyle = COLOR_STYLE THEN VisFrame[p] ELSE 128

C22_Witness ==
    /\ fn.op = "fuse"
    /\ fn.pc = "done"
    /\ fn.cstyle = COLOR_STYLE
    /\ fn.i_fusn_image[fn.y8.width * fn.y8.height + 1] = (fn.vis.seed + 37) % 256
    /\ fn.i_fusn_image[fn.y8.width * fn.y8.height + 2] # 128

(***************************************************************************)
(* suppress_bright_feature on its own: unsuppressed fusion images of 16-bit*)
(* values over frames of one pixel and of more than 1 / bpr pixels.        *)
(***************************************************************************)
SuppressPairs == {<<0, 0>>, <<0, 65535>>, <<300, 510>>, <<7, 0>>}
SuppressSizes == {<<1, 1>>, <<2, 1>>, <<40, 30>>, <<50, 40>>}

SuppressInitial ==
    /\ FnQuiet
    /\ \E k \in ImageKinds, g \in SuppressPairs, sz \in SuppressSizes, r \in {0, 200} :
          fn = [op |-> "suppress", pc |-> "call",
                usfn |-> [kind |-> k, lo |-> g[1], hi |-> g[2],
                          width |-> sz[1], height |-> sz[2]],
                rfbf |-> r, scan |-> [oob |-> FALSE, i |-> ngls - 1, bpc |-> 0, sum |-> 0],
                sbrf_image |-> <<>>]

\* fusion_thread: suppress_bright_feature(rfbf_image, base_width, base_height,
\* usfn_image, hist, ngls, ssr, bpr, sbrf_image).
SuppressCall ==
    /\ fn.op = "suppress"
    /\ fn.pc = "call"
    /\ \E usfn_image \in {Raster(fn.usfn)} :
       \E sup \in {suppress_bright_feature(
                      [p \in 1..(fn.usfn.width * fn.usfn.height) |-> fn.rfbf],
                      fn.usfn.width * fn.usfn.height, usfn_image, ngls)} :
          fn' = [fn EXCEPT !.scan = sup.scan, !.sbrf_image = sup.sbrf_image,
                           !.pc = "done"]
    /\ UNCHANGED FnRest

SuppressNext == SuppressCall

SpecSuppress == SuppressInitial /\ [][SuppressNext]_vars

\* C24: for every image of at least one pixel the downward scan of
\* suppress_bright_feature stops at a bin i >= 0 where the accumulated count
\* exceeds floor(bpr * width * height); i does not wrap below 0 and hist is
\* not read outside [0, ngls - 1].
C24_ScanStopsInRange ==
    (fn.op = "suppress" /\ fn.pc = "done") =>
        /\ ~fn.scan.oob
        /\ fn.scan.i >= 0
        /\ fn.scan.i <= ngls - 1
        /\ fn.scan.bpc > (fn.usfn.width * fn.usfn.height) \div bprDen
        /\ Len(fn.sbrf_image) = fn.usfn.width * fn.usfn.height

\* The scan passes a bin whose pixels do not exceed bpct and stops at bin 0.
C24_Witness ==
    /\ fn.op = "suppress"
    /\ fn.pc = "done"
    /\ (fn.usfn.width * fn.usfn.height) \div bprDen >= 1
    /\ fn.usfn.kind = "dot"
    /\ fn.usfn.hi = 65535
    /\ fn.scan.i = 0
    /\ fn.scan.bpc = fn.usfn.width * fn.usfn.height

(***************************************************************************)
(* rm_regist_warp_image on YUV420 frames.  The interpolation tables hold   *)
(* halves: entry (x, y) of col_inter_tab is (sx * x + ox) / 2, of          *)
(* row_inter_tab (sy * y + oy) / 2.  A frame is a sequence of bytes, byte  *)
(* k of the code at index k + 1.                                           *)
(***************************************************************************)
\* The calls of preprocess_visual_thread that are followed.
MaxWarps == 2

\* base and unregistered sizes, even on both sides.
WarpSizes ==
    {[base_width |-> 2, base_height |-> 2, unreg_width |-> 4, unreg_height |-> 4],
     [base_width |-> 4, base_height |-> 2, unreg_width |-> 4, unreg_height |-> 2]}

\* (sx, ox, sy, oy) of the tables, in halves.
WarpTabs ==
    {[sx |-> t[1], ox |-> t[2], sy |-> t[3], oy |-> t[4]] :
        t \in {2, 3} \X {0 - 3, 0 - 1, 0, 1, 4} \X {2} \X {0 - 1, 0, 3}}

\* (int)(r) of a float given in halves: truncation toward zero.
IntCast(r2) == IF r2 >= 0 THEN r2 \div 2 ELSE 0 - ((0 - r2) \div 2)

\* The visible frame of a seed: Y, U and V bytes.
WarpSrc(seed, sz) ==
    [k \in 1..((sz.unreg_width * sz.unreg_height * 3) \div 2) |-> (seed + 29 * k) % 256]

\* The four tests of rm_regist_warp_image that end in continue.
WarpSkips(self, x, y) ==
    LET tlcx == IntCast(self.tab.sx * x + self.tab.ox)
        tlcy == IntCast(self.tab.sy * y + self.tab.oy)
    IN  \/ tlcx < 0 \/ tlcx > self.unreg_width - 1
        \/ tlcy < 0 \/ tlcy > self.unreg_height - 1
        \/ tlcx + 1 < 0 \/ tlcx + 1 > self.unreg_width - 1
        \/ tlcy + 1 < 0 \/ tlcy + 1 > self.unreg_height - 1

\* The Y value written for a pixel that is not skipped: nval and sval are
\* unsigned char, interp_val is clamped to [0, 255].
WarpY(self, src, x, y) ==
    LET rx2 == self.tab.sx * x + self.tab.ox
        ry2 == self.tab.sy * y + self.tab.oy
        tlcx == IntCast(rx2)
        tlcy == IntCast(ry2)
        lrcx == tlcx + 1
        lrcy == tlcy + 1
        nwval == src[tlcy * self.unreg_width + tlcx + 1]
        swval == src[lrcy * self.unreg_width + tlcx + 1]
        neval == src[tlcy * self.unreg_width + lrcx + 1]
        seval == src[lrcy * self.unreg_width + lrcx + 1]
        fx2 == rx2 - 2 * tlcx
        fy2 == ry2 - 2 * tlcy
        nval == U8(IntCast(fx2 * neval + (2 - fx2) * nwval))
        sval == U8(IntCast(fx2 * seval + (2 - fx2) * swval))
        interp_val == IntCast((2 - fy2) * nval + fy2 * sval)
    IN  Clamp(interp_val, 0, 255)

\* The even pixels, not skipped, that write chroma sample k of a plane:
\* dst_uvy * dstuv_width + dst_uvx = k.
ChromaWriters(self, k) ==
    {c \in (0..(self.base_width - 1)) \X (0..(self.base_height - 1)) :
        /\ c[1] % 2 = 0 /\ c[2] % 2 = 0
        /\ (c[2] \div 2) * (self.base_width \div 2) + (c[1] \div 2) = k
        /\ ~WarpSkips(self, c[1], c[2])}

\* The source chroma sample copied for pixel c from the plane at byte base.
WarpChroma(self, src, c, base) ==
    LET src_uvx == IntCast(self.tab.sx * c[1] + self.tab.ox) \div 2
        src_uvy == IntCast(self.tab.sy * c[2] + self.tab.oy) \div 2
    IN  src[base + src_uvy * (self.unreg_width \div 2) + src_uvx + 1]

\* rm_regist_warp_image without the memset of the chroma planes.
rm_regist_warp_image_nomemset(self, src, dst) ==
    LET npix == self.base_width * self.base_height
        udst == npix
        vdst == (npix * 5) \div 4
        usrc == self.unreg_width * self.unreg_height
        vsrc == (self.unreg_width * self.unreg_height * 5) \div 4
    IN  [p \in DOMAIN dst |->
            IF p <= npix
            THEN LET x == (p - 1) % self.base_width
                     y == (p - 1) \div self.base_width
                 IN  IF WarpSkips(self, x, y) THEN dst[p] ELSE WarpY(self, src, x, y)
            ELSE LET plane == IF p - 1 >= vdst THEN vdst ELSE udst
                     w == ChromaWriters(self, p - 1 - plane)
                 IN  IF w = {} THEN dst[p]
                     ELSE WarpChroma(self, src, CHOOSE c \in w : TRUE,
                                     IF plane = vdst THEN vsrc ELSE usrc)]

\* rm_regist_warp_image(self, src, dst): memset of the base_width *
\* base_height >> 1 chroma bytes of dst to 0x80, then per output pixel the
\* four tests, the Y interpolation and, for even x and y, the copy of the U
\* and V samples.
rm_regist_warp_image(self, src, dst) ==
    LET npix == self.base_width * self.base_height
        udst == npix
        vdst == (npix * 5) \div 4
        usrc == self.unreg_width * self.unreg_height
        vsrc == (self.unreg_width * self.unreg_height * 5) \div 4
    IN  [p \in DOMAIN dst |->
            IF p <= npix
            THEN LET x == (p - 1) % self.base_width
                     y == (p - 1) \div self.base_width
                 IN  IF WarpSkips(self, x, y) THEN dst[p] ELSE WarpY(self, src, x, y)
            ELSE LET plane == IF p - 1 >= vdst THEN vdst ELSE udst
                     w == ChromaWriters(self, p - 1 - plane)
                 IN  IF w = {} THEN 128
                     ELSE WarpChroma(self, src, CHOOSE c \in w : TRUE,
                                     IF plane = vdst THEN vsrc ELSE usrc)]

\* fusion_init: i_regt_image is a malloc block, its bytes are whatever the
\* allocator leaves there.
WarpInitial ==
    /\ FnQuiet
    /\ \E sz \in WarpSizes, tab \in WarpTabs, stale \in {0, 17, 128} :
          fn = [op |-> "warp", n |-> 0,
                regist |-> sz @@ [tab |-> tab],
                before |-> <<>>,
                i_regt_image |-> [p \in 1..((sz.base_width * sz.base_height * 3) \div 2)
                                    |-> stale]]

\* preprocess_visual_thread: rm_regist_warp_image(regist, o_rawv_image,
\* i_regt_image) on the frame dequeued.
WarpCall ==
    /\ fn.op = "warp"
    /\ fn.n < MaxWarps
    /\ \E seed \in {5, 90} :
          fn' = [fn EXCEPT !.n = @ + 1,
                           !.before = fn.i_regt_image,
                           !.i_regt_image =
                               rm_regist_warp_image(fn.regist, WarpSrc(seed, fn.regist),
                                                    fn.i_regt_image)]
    /\ UNCHANGED FnRest

WarpNext == WarpCall

SpecWarp == WarpInitial /\ [][WarpNext]_vars

\* The output pixels of the registration that are skipped.
SkippedPixels ==
    {c \in (0..(fn.regist.base_width - 1)) \X (0..(fn.regist.base_height - 1)) :
        WarpSkips(fn.regist, c[1], c[2])}

\* The indices in the record of the Y byte, the U sample and the V sample of
\* output pixel c.
YIndex(c) == c[2] * fn.regist.base_width + c[1] + 1
UIndex(c) ==
    fn.regist.base_width * fn.regist.base_height
      + (c[2] \div 2) * (fn.regist.base_width \div 2) + (c[1] \div 2) + 1
VIndex(c) ==
    (fn.regist.base_width * fn.regist.base_height * 5) \div 4
      + (c[2] \div 2) * (fn.regist.base_width \div 2) + (c[1] \div 2) + 1

\* C23 as stated: after rm_regist_warp_image every output pixel whose
\* tlcx, tlcx + 1, tlcy or tlcy + 1 falls outside the visible image has the
\* luminance and the chroma samples it had before the call.
C23_SkippedPixelUntouched ==
    (fn.op = "warp" /\ fn.n > 0) =>
        \A c \in SkippedPixels :
            /\ fn.i_regt_image[YIndex(c)] = fn.before[YIndex(c)]
            /\ fn.i_regt_image[UIndex(c)] = fn.before[UIndex(c)]
            /\ fn.i_regt_image[VIndex(c)] = fn.before[VIndex(c)]

\* C23 amended: a skipped output pixel keeps its luminance; its U and V
\* samples are 0x80 after the call, whatever they held before, unless the
\* even pixel that shares the samples is not skipped and wrote them.
C23_Amended ==
    (fn.op = "warp" /\ fn.n > 0) =>
        \A c \in SkippedPixels :
            LET even == <<c[1] - (c[1] % 2), c[2] - (c[2] % 2)>>
            IN  /\ fn.i_regt_image[YIndex(c)] = fn.before[YIndex(c)]
                /\ even \in SkippedPixels =>
                      /\ fn.i_regt_image[UIndex(c)] = 128
                      /\ fn.i_regt_image[VIndex(c)] = 128

\* A first call that skips an even pixel whose bytes were not 0x80 and writes
\* another pixel.
C23_Witness ==
    /\ fn.op = "warp"
    /\ fn.n = 1
    /\ <<0, 0>> \in SkippedPixels
    /\ fn.before[UIndex(<<0, 0>>)] = 17
    /\ fn.i_regt_image[UIndex(<<0, 0>>)] = 128
    /\ fn.i_regt_image[YIndex(<<0, 0>>)] = 17
    /\ \E p \in 1..(fn.regist.base_width * fn.regist.base_height) :
          fn.i_regt_image[p] # fn.before[p]

(***************************************************************************)
(* The pipeline while main is between the capture starts and its display   *)
(* loop (SDL_Init .. SDL_CreateTexture): the capture threads and the six   *)
(* workers run, no getter is called yet.                                   *)
(***************************************************************************)
SkewInit ==
    /\ FifoIdle
    /\ AllocIdle
    /\ PipeObjects
    /\ pc = [t \in Threads |-> IF t \in Captures THEN "recv" ELSE "get"]
    /\ mainpc = "s_sdl"

SkewCaptureIrPut == CaptureIrFrame(MaxSkewFrames)

SkewNext ==
    \/ FusStep
    \/ IrpStep
    \/ VspStep
    \/ MnfStep
    \/ QdtStep
    \/ BkgStep
    \/ SkewCaptureIrPut
    \/ CaptureVisPut

SpecSkew == SkewInit /\ [][SkewNext]_vars

\* The frames behind a fused record and behind a background.
FusedGsci(t) == t \div (TagBase * TagBase * TagBase)
FusedRegt(t) == (t \div (TagBase * TagBase)) % TagBase
FusedBkgr(t) == t % (TagBase * TagBase)
BkgrMinf(b) == b \div TagBase
BkgrBlob(b) == b % TagBase

\* C26: the fusion thread is at the head of its loop only with input records
\* that went into a fused record: a record dequeued from the gsci (IR y8) or
\* regt (registered visible) ring is not given up because a later input ring
\* was empty.
C26_DequeuedRecordIsFused ==
    pc["fus"] = "get" =>
        /\ Tag(scr["o_gsci_image"]) \in {0, FusedGsci(Tag(scr["i_fusn_image"]))}
        /\ Tag(scr["o_regt_image"]) \in {0, FusedRegt(Tag(scr["i_fusn_image"]))}

\* C27: in every fused record the IR y8 frame and the frames behind the
\* background have sequence numbers that differ by at most one.
C27_BackgroundWithinOneFrame ==
    LET t == Tag(scr["i_fusn_image"])
        g == FusedGsci(t)
        b == FusedBkgr(t)
    IN  (pc["fus"] \in {"pfusn", "pbrft"}) =>
            /\ g - BkgrMinf(b) \in {0 - 1, 0, 1}
            /\ g - BkgrBlob(b) \in {0 - 1, 0, 1}

\* C29: every background the background reconstruction worker produces is
\* built from a min-filtered image and a blob list of the same IR frame.
C29_BackgroundFromOneFrame ==
    pc["bkg"] = "put" =>
        BkgrMinf(Tag(scr["i_gfbr_image"])) = BkgrBlob(Tag(scr["i_gfbr_image"]))

(***************************************************************************)
(* Which thread touches which scratch image and which end of which ring.   *)
(***************************************************************************)
\* The thread whose code names the scratch image: main.cpp's capture threads
\* through fusion_put_inf / fusion_put_vis, main through the four getters,
\* preprocess_infrared_thread through bkgreconst_put, fusion_thread through
\* bkgreconst_get.
ScratchOwner ==
    [i_rawi_image |-> "cir", i_rawv_image |-> "cvs",
     o_rawi_image |-> "irp", i_gsci_image |-> "irp", i_infd_image |-> "irp",
     o_rawv_image |-> "vsp", i_regt_image |-> "vsp",
     infm_image |-> "mnf", i_minf_image |-> "mnf",
     o_infd_image |-> "qdt", iblob |-> "qdt",
     o_minf_image |-> "bkg", oblob |-> "bkg", b_bkgr_image |-> "bkg",
     i_gfbr_image |-> "bkg",
     o_gsci_image |-> "fus", o_regt_image |-> "fus", o_gfbr_image |-> "fus",
     bkgr_image |-> "fus", sbrf_image |-> "fus", i_fusn_image |-> "fus",
     o_fusn_image |-> "main", iout_image |-> "main", vout_image |-> "main",
     fout_image |-> "main"]

\* The thread that calls fifo_put on the ring, and the one that calls fifo_get.
RingProducer ==
    [rawi |-> "cir", rawv |-> "cvs", gsci |-> "irp", iout |-> "irp", infd |-> "irp",
     infm |-> "irp", regt |-> "vsp", vout |-> "vsp", minf |-> "mnf", blob |-> "qdt",
     gfbr |-> "bkg", fusn |-> "fus", brft |-> "fus"]

RingConsumer ==
    [rawi |-> "irp", rawv |-> "vsp", gsci |-> "fus", iout |-> "main", infd |-> "qdt",
     infm |-> "mnf", regt |-> "fus", vout |-> "main", minf |-> "bkg", blob |-> "bkg",
     gfbr |-> "fus", fusn |-> "main", brft |-> "main"]

\* The threads that take the step: a worker whose position changes, a capture
\* thread that delivers a frame, main when its position changes.
Actors ==
    {t \in Threads : pc'[t] # pc[t]}
        \cup (IF irSeq' # irSeq THEN {"cir"} ELSE {})
        \cup (IF visSeq' # visSeq THEN {"cvs"} ELSE {})
        \cup (IF mainpc' # mainpc THEN {"main"} ELSE {})

RING_BUF_NUM == 16

\* init_video_pic_capture: calloc of the ring, in = count = out = 0; both
\* threads at the head of their loops.
VsgInitial ==
    /\ FnQuiet
    /\ fn = [op |-> "vsg", in |-> 0, out |-> 0, count |-> 0,
             capture |-> "loop", decode |-> "get", index |-> 0, begin_flag |-> 0]

\* capture_flow_thread: the call of video_get_visu_orig_rgb_data with
\* picture[in].packet; av_read_frame starts to fill that packet.
CaptureReadFrame ==
    /\ fn.op = "vsg"
    /\ fn.capture = "loop"
    /\ fn' = [fn EXCEPT !.capture = "read"]
    /\ UNCHANGED FnRest

\* video_get_visu_orig_rgb_data: av_read_frame has returned; a failed read, a
\* packet of another stream or of size 0 returns -1, else
\* ring_put_picture_packet is called.
CaptureReadDone ==
    /\ fn.op = "vsg"
    /\ fn.capture = "read"
    /\ \E ok \in BOOLEAN : fn' = [fn EXCEPT !.capture = IF ok THEN "put" ELSE "loop"]
    /\ UNCHANGED FnRest

\* ring_put_picture_packet: in = (in + 1) % RING_BUF_NUM, count++ under the
\* mutex; when in was RING_BUF_NUM - 1 the call then waits while count > 0.
ring_put_picture_packet ==
    /\ fn.op = "vsg"
    /\ fn.capture = "put"
    /\ fn' = [fn EXCEPT !.in = (fn.in + 1) % RING_BUF_NUM,
                        !.count = @ + 1,
                        !.capture = IF fn.in = RING_BUF_NUM - 1 THEN "wait" ELSE "loop"]
    /\ UNCHANGED FnRest

\* while ((ring->count) > 0) Sleep(10); return 0.
RingPutWaitOver ==
    /\ fn.op = "vsg"
    /\ fn.capture = "wait"
    /\ ~(fn.count > 0)
    /\ fn' = [fn EXCEPT !.capture = "loop"]
    /\ UNCHANGED FnRest

\* decode_flow_thread: ring_get_picture_packet returned 0 (count > 0: out =
\* (out + 1) % RING_BUF_NUM, count-- under the mutex); index is
\* RING_BUF_NUM - 1 if out == 0 && begin_flag != 0, else out - 1 and
\* begin_flag = 1; avcodec_decode_video2 starts on picture[index].packet.
\* With count <= 0 the call returns -1 and the thread sleeps and tries again.
ring_get_picture_packet ==
    /\ fn.op = "vsg"
    /\ fn.decode = "get"
    /\ fn.count > 0
    /\ LET o == (fn.out + 1) % RING_BUF_NUM
           wrapped == o = 0 /\ fn.begin_flag # 0
       IN  fn' = [fn EXCEPT !.out = o,
                            !.count = @ - 1,
                            !.index = IF wrapped THEN RING_BUF_NUM - 1 ELSE o - 1,
                            !.begin_flag = IF wrapped THEN @ ELSE 1,
                            !.decode = "decode"]
    /\ UNCHANGED FnRest

\* avcodec_decode_video2 and av_free_packet of picture[index].packet are done.
DecodeDone ==
    /\ fn.op = "vsg"
    /\ fn.decode = "decode"
    /\ fn' = [fn EXCEPT !.decode = "get"]
    /\ UNCHANGED FnRest

VsgNext ==
    \/ CaptureReadFrame
    \/ CaptureReadDone
    \/ ring_put_picture_packet
    \/ RingPutWaitOver
    \/ ring_get_picture_packet
    \/ DecodeDone

SpecVsg == VsgInitial /\ [][VsgNext]_vars

\* The slots whose packet the decode thread may still read: the ones put and
\* not yet taken, and the one it is decoding.
UnreadSlots ==
    {(fn.out + k) % RING_BUF_NUM : k \in 0..(fn.count - 1)}
        \cup (IF fn.decode = "decode" THEN {fn.index} ELSE {})

\* C30: the capture thread does not write into a packet slot that the decode
\* thread may still read.
C30_NoWriteIntoUnreadSlot ==
    (fn.op = "vsg" /\ fn.capture = "read") => fn.in \notin UnreadSlots

====
